---- MODULE Spec2Model ----
(***************************************************************************)
(* State-machine model of CanvasManager (src/js/canvas.js): the gesture    *)
(* controller, the inertia loop, the layer transform store, the render     *)
(* pipeline and the toploader gradient cache.                               *)
(*                                                                         *)
(* Numbers.  JavaScript numbers are modelled as fixed-point integers: the   *)
(* integer n stands for n / Unit, products and quotients are truncated     *)
(* toward zero.  NaN and Infinity are two extra values with the IEEE rules  *)
(* the code relies on (0/0 = NaN, x/0 = Infinity for x > 0, Math.min and   *)
(* Math.max return NaN when an argument is NaN).  Angles are kept in units  *)
(* of pi/4 (EighthTurn): the pointer positions of the model are chosen so   *)
(* that Math.atan2 of every pair is an exact multiple of pi/4.              *)
(***************************************************************************)
EXTENDS Integers, Sequences, FiniteSets, TLC

\* ---------------------------------------------------------------- bounds
Step == 2                \* pointer coordinates are 0 or Step (CSS pixels)
MaxPointerId == 2        \* pointer ids are 1..MaxPointerId
MaxPointers == 2         \* cap on the length of gesture.pointers
MaxDrag == 1             \* single-pointer moves delivered in one behaviour
MaxWheel == 1            \* wheel events delivered in one behaviour
MaxLoad == 1             \* foreground uploads in one behaviour
MaxPinch == 1            \* two-pointer snapshots taken in one behaviour
MaxTap == 1              \* taps on the placeholder delivered in one behaviour
MaxEdit == 2             \* transform-store calls made in one behaviour
MaxMedia == 2            \* background, camera and modal changes in one behaviour
MaxFrames == 2           \* cap on pending inertia animation-frame callbacks
MaxGifFrames == 3        \* frames of a decoded GIF
MaxUploads == 2          \* files uploaded in one behaviour of the ingest specification
MaxTouches == 3          \* pointers of the multi-touch specification, ids 1..MaxTouches
MaxStrokes == 2          \* single-pointer moves in one multi-touch behaviour
MaxTaps == 2             \* placeholder taps within one feedback window

\* ------------------------------------------------------- number helpers
\* fixed-point resolution: the integer n stands for n / Unit
Unit == 10 * 10 * 10

NaN == 0 - 1
Infinity == 0 - 2

IsFinite(a) == a # NaN /\ a # Infinity

Abs(a) == IF a < 0 THEN 0 - a ELSE a

\* integer quotient truncated toward zero
Trunc(n, d) == IF n >= 0 THEN n \div d ELSE 0 - ((0 - n) \div d)

\* the fixed-point value of the decimal num / den
Fraction(num, den) == (num * Unit) \div den

\* |a| * |b| / Unit, truncated, without forming the full product
MulAbs(a, b) == (a \div Unit) * b + ((a % Unit) * b) \div Unit

\* a * b for fixed-point operands; NaN and Infinity as in IEEE 754.  Infinity
\* only arises as a quotient of non-negative numbers, NaN and Infinity are
\* tested before any sign is.
Mul(a, b) ==
    IF a = NaN \/ b = NaN THEN NaN
    ELSE IF a = Infinity \/ b = Infinity
         THEN (IF a = 0 \/ b = 0 THEN NaN ELSE Infinity)
         ELSE IF (a < 0) = (b < 0) THEN MulAbs(Abs(a), Abs(b))
                                   ELSE 0 - MulAbs(Abs(a), Abs(b))

\* a / b for fixed-point operands, a finite or not, b >= 0 or not finite
Div(a, b) ==
    IF a = NaN \/ b = NaN THEN NaN
    ELSE IF a = Infinity THEN (IF b = Infinity THEN NaN ELSE Infinity)
    ELSE IF b = Infinity THEN 0
    ELSE IF b = 0 THEN (IF a = 0 THEN NaN ELSE Infinity)
    ELSE Trunc(a * Unit, b)

MathMin(a, b) ==
    IF a = NaN \/ b = NaN THEN NaN
    ELSE IF a = Infinity THEN b
    ELSE IF b = Infinity THEN a
    ELSE IF a < b THEN a ELSE b

MathMax(a, b) ==
    IF a = NaN \/ b = NaN THEN NaN
    ELSE IF a = Infinity \/ b = Infinity THEN Infinity
    ELSE IF a > b THEN a ELSE b

RECURSIVE SqrtSearch(_, _, _)
SqrtSearch(n, lo, hi) ==
    IF lo >= hi THEN lo
    ELSE LET mid == (lo + hi + 1) \div 2
         IN IF mid * mid <= n THEN SqrtSearch(n, mid, hi)
                              ELSE SqrtSearch(n, lo, mid - 1)

\* Math.sqrt of a non-negative integer, rounded down
MathSqrt(n) == SqrtSearch(n, 0, 46340)

\* Math.atan2(dy, dx) in units of pi/4, for the directions the model uses
MathAtan2(dy, dx) ==
    CASE dy = 0 /\ dx >= 0 -> 0
      [] dy = 0 /\ dx < 0 -> 4
      [] dx = 0 /\ dy > 0 -> 2
      [] dx = 0 /\ dy < 0 -> 0 - 2
      [] dx > 0 /\ dy = dx -> 1
      [] dx < 0 /\ dy = 0 - dx -> 3
      [] dx < 0 /\ dy = dx -> 0 - 3
      [] dx > 0 /\ dy = 0 - dx -> 0 - 1

\* ---------------------------------------------------------------- inputs
null == [null |-> TRUE]

\* a number held in a field that may also hold null
Num(n) == [num |-> n]

PlaceholderImage == [width |-> 600, height |-> 900]

\* uploaded foreground images (natural size in pixels)
Images == {[width |-> 100, height |-> 150], [width |-> 3000, height |-> 4500]}

BackgroundImages == {[width |-> 800, height |-> 400]}

\* display size of the canvas (getBoundingClientRect), in pixels
CanvasSizes == {[width |-> 400, height |-> 600]}

PointerIds == 1..MaxPointerId

\* pointer positions (clientX, clientY), fixed-point
Points == {<<0, 0>>, <<Step * Unit, 0>>, <<0, Step * Unit>>}

PointerEvents == [pointerId : PointerIds, clientX : {p[1] : p \in Points},
                  clientY : {p[2] : p \in Points}]

\* pointerup and pointercancel events: handlePointerUp reads only the id
PointerUpEvents == {e \in PointerEvents : e.clientX = 0 /\ e.clientY = 0}

\* ----------------------------------------------------------------- state
VARIABLES
    rect,                    \* canvas.getBoundingClientRect(): width, height
    backgroundImage,         \* CanvasManager.backgroundImage
    photocardImage,          \* CanvasManager.photocardImage
    isPlaceholder,           \* CanvasManager.isPlaceholder
    camera,                  \* CanvasManager.camera: active, video
    background,              \* CanvasManager.background
    photocard,               \* CanvasManager.photocard
    toploaderGradientCache,  \* CanvasManager.toploaderGradientCache
    gesture,                 \* CanvasManager.gesture
    animation,               \* CanvasManager.animation
    modalActive,             \* document.querySelector('.modal.active') # null
    inertiaFrames,           \* pending requestAnimationFrame(animate) callbacks
    feedbackTimers,          \* pending placeholder-feedback timeouts (originalScale)
    placeholderLoads,        \* pending onload callbacks of the placeholder image
    drawLog,                 \* draw calls of the latest render(), in order
    overlayDraw,             \* fill styles and constructions of the latest drawToploader()
    gradientCount,           \* gradients constructed so far (object identities)
    rendered,                \* the latest handler ended in a call of render()
    cameraPending,           \* the await startCamera() is suspended at, or "none"
    photocardGif,            \* CanvasManager.photocardGif
    backgroundGif,           \* CanvasManager.backgroundGif
    playback,                \* pending requestAnimationFrame(animate) of each GIF loop
    clock,                   \* performance.now(), the timestamp of the latest frame
    liveStreams,             \* camera streams acquired whose tracks are not stopped
    cameraPumps,             \* pending requestAnimationFrame(renderCameraFrame)
    captures,                \* pending img.onload callbacks of captureFrame()
    settled,                 \* how the latest promise of a load or camera start ended
    baseDraw,                \* geometry of the base layer drawn by the latest render()
    budget                   \* input events the environment may still deliver

vars == <<rect, backgroundImage, photocardImage, isPlaceholder, camera, background,
          photocard, toploaderGradientCache, gesture, animation, modalActive,
          inertiaFrames, feedbackTimers, placeholderLoads, drawLog, overlayDraw,
          gradientCount, rendered, cameraPending, photocardGif, backgroundGif,
          playback, clock, liveStreams, cameraPumps, captures, settled, baseDraw,
          budget>>

InitBackground ==
    [x |-> 0, y |-> 0, scale |-> Unit, rotation |-> 0, flipH |-> FALSE, flipV |-> FALSE]

InitPhotocard ==
    [x |-> 0, y |-> 0, scale |-> Unit, rotation |-> 0, flipH |-> FALSE, flipV |-> FALSE,
     layer |-> "front", showToploader |-> TRUE]

InitGradientCache ==
    [westGradient |-> null, eastGradient |-> null, southGradient |-> null,
     cachedWidth |-> null, cachedHeight |-> null]

InitGesture ==
    [active |-> FALSE, startDistance |-> 0, startAngle |-> 0, startScale |-> Unit,
     startRotation |-> 0, lastX |-> 0, lastY |-> 0, pointers |-> <<>>]

InitAnimation == [active |-> FALSE, velocityX |-> 0, velocityY |-> 0]

InitCamera == [active |-> FALSE, stream |-> FALSE, video |-> FALSE,
               facingMode |-> "environment", animationFrame |-> FALSE,
               currentZoom |-> Unit, minZoom |-> Unit, maxZoom |-> 10 * Unit]

\* photocardGif and backgroundGif as declared, and as reset() rebuilds them
InitGif ==
    [isGif |-> FALSE, frames |-> <<>>, delays |-> <<>>, currentFrame |-> 0,
     lastFrameTime |-> 0, animationFrame |-> FALSE]

\* nothing is loading, playing or streaming
InitIngest ==
    /\ photocardGif = InitGif
    /\ backgroundGif = InitGif
    /\ playback = [photocard |-> 0, background |-> 0]
    /\ clock = 0
    /\ liveStreams = 0
    /\ cameraPumps = 0
    /\ captures = 0
    /\ settled = null

\* What the environment does in one behaviour: how many inputs of each kind
\* it delivers, and how many pointers it holds down at once.  A behaviour
\* follows one of these scenarios.
Budget(pinch, drag, wheel, load, tap, edit, media) ==
    [pinch |-> pinch, drag |-> drag, wheel |-> wheel, load |-> load, tap |-> tap,
     edit |-> edit, media |-> media, pointers |-> MaxPointers]

Scenarios ==
    {Budget(MaxPinch, 0, MaxWheel, 0, 0, 0, 0),
     Budget(MaxPinch, 0, 0, MaxLoad, 0, 0, 0),
     Budget(0, MaxDrag, 0, 0, MaxTap, 0, 0),
     Budget(0, 0, 0, MaxLoad, 0, MaxEdit, 0),
     Budget(0, 0, 0, 0, 0, 1, MaxMedia)}

\* the manager after init(): the placeholder image is still loading
Init ==
    /\ rect \in CanvasSizes
    /\ backgroundImage = null
    /\ photocardImage = null
    /\ isPlaceholder = FALSE
    /\ camera = InitCamera
    /\ background = InitBackground
    /\ photocard = InitPhotocard
    /\ toploaderGradientCache = InitGradientCache
    /\ gesture = InitGesture
    /\ animation = InitAnimation
    /\ modalActive = FALSE
    /\ inertiaFrames = 0
    /\ feedbackTimers = <<>>
    /\ placeholderLoads = 1
    /\ drawLog = <<"border">>
    /\ baseDraw = null
    /\ overlayDraw = null
    /\ gradientCount = 0
    /\ rendered = TRUE
    /\ cameraPending = "none"
    /\ InitIngest
    /\ budget \in Scenarios

\* --------------------------------------------------------------- geometry
\* getDistance(p1, p2)
getDistance(p1, p2) ==
    LET dx == p2.x - p1.x
        dy == p2.y - p1.y
    IN MathSqrt(dx * dx + dy * dy)

\* getAngle(p1, p2), in units of pi/4
getAngle(p1, p2) == MathAtan2(p2.y - p1.y, p2.x - p1.x)

\* Math.cos and Math.sin of an angle given in units of pi/4
MathCos(r) ==
    CASE r % 8 = 0 -> Unit
      [] r % 8 \in {1, 7} -> MathSqrt((Unit * Unit) \div 2)
      [] r % 8 \in {2, 6} -> 0
      [] r % 8 \in {3, 5} -> 0 - MathSqrt((Unit * Unit) \div 2)
      [] r % 8 = 4 -> 0 - Unit

MathSin(r) == MathCos(r - 2)

\* a hit test that forgets the rotation of the foreground
isPointOnPhotocardUnrotated(x, y, image, pc) ==
    IF image = null THEN FALSE
    ELSE LET scaledX == Div(Abs(x - pc.x), pc.scale)
             scaledY == Div(Abs(y - pc.y), pc.scale)
         IN /\ IsFinite(scaledX) /\ IsFinite(scaledY)
            /\ scaledX <= (image.width * Unit) \div 2
            /\ scaledY <= (image.height * Unit) \div 2

\* isPointOnPhotocard(x, y) for foreground media `image` with transform `pc`
isPointOnPhotocard(x, y, image, pc) ==
    IF image = null THEN FALSE
    ELSE LET dx == x - pc.x
             dy == y - pc.y
             cos == MathCos(0 - pc.rotation)
             sin == MathSin(0 - pc.rotation)
             localX == Mul(dx, cos) - Mul(dy, sin)
             localY == Mul(dx, sin) + Mul(dy, cos)
             scaledX == Div(Abs(localX), pc.scale)
             scaledY == Div(Abs(localY), pc.scale)
             halfWidth == (image.width * Unit) \div 2
             halfHeight == (image.height * Unit) \div 2
         IN /\ IsFinite(scaledX) /\ IsFinite(scaledY)
            /\ scaledX <= halfWidth /\ scaledY <= halfHeight

\* ----------------------------------------------------------------- render
\* window.BorderManager is installed when the scripts load
windowBorderManager == TRUE

\* an overlay draw that never reuses a gradient
drawToploaderUncached(width, height, cache, count) ==
    [cache |-> [westGradient |-> [id |-> count + 1], eastGradient |-> [id |-> count + 2],
                southGradient |-> [id |-> count + 3],
                cachedWidth |-> Num(width), cachedHeight |-> Num(height)],
     count |-> count + 3,
     draw |-> [west |-> [id |-> count + 1], east |-> [id |-> count + 2],
               south |-> [id |-> count + 3], constructed |-> 3,
               width |-> width, height |-> height, before |-> cache]]

\* drawToploader(width, height): the three cached gradients.  The result is
\* the cache after the call, the number of gradients constructed so far and
\* the fill styles the call used.
drawToploader(width, height, cache, count) ==
    LET dimensionsChanged == cache.cachedWidth # Num(width) \/ cache.cachedHeight # Num(height)
        westGradient == IF dimensionsChanged THEN [id |-> count + 1] ELSE cache.westGradient
        eastGradient == IF dimensionsChanged THEN [id |-> count + 2] ELSE cache.eastGradient
        southGradient == IF dimensionsChanged THEN [id |-> count + 3] ELSE cache.southGradient
    IN [cache |-> [westGradient |-> westGradient, eastGradient |-> eastGradient,
                   southGradient |-> southGradient,
                   cachedWidth |-> Num(width), cachedHeight |-> Num(height)],
        count |-> IF dimensionsChanged THEN count + 3 ELSE count,
        draw |-> [west |-> westGradient, east |-> eastGradient, south |-> southGradient,
                  constructed |-> IF dimensionsChanged THEN 3 ELSE 0,
                  width |-> width, height |-> height,
                  before |-> cache]]

\* drawPhotocard(): the draw calls it makes
drawPhotocard(pc) ==
    IF pc.showToploader THEN <<"photocard", "toploader">> ELSE <<"photocard">>

\* a render that always draws the border before the foreground
renderLogBorderFirst(bgImage, pcImage, pc, cam) ==
    (IF cam.active /\ cam.video THEN <<"camera">>
     ELSE IF bgImage # null THEN <<"background">>
     ELSE <<>>)
    \o (IF windowBorderManager THEN <<"border">> ELSE <<>>)
    \o (IF pcImage # null THEN drawPhotocard(pc) ELSE <<>>)

\* a render that draws the background image under the camera feed
renderLogBothBases(bgImage, pcImage, pc, cam) ==
    (IF bgImage # null THEN <<"background">> ELSE <<>>)
    \o (IF cam.active /\ cam.video THEN <<"camera">> ELSE <<>>)
    \o (IF pcImage # null /\ pc.layer = "back" THEN drawPhotocard(pc) ELSE <<>>)
    \o (IF windowBorderManager THEN <<"border">> ELSE <<>>)
    \o (IF pcImage # null /\ pc.layer = "front" THEN drawPhotocard(pc) ELSE <<>>)

\* render(): the draw calls, in order
renderLog(bgImage, pcImage, pc, cam) ==
    (IF cam.active /\ cam.video THEN <<"camera">>
     ELSE IF bgImage # null THEN <<"background">>
     ELSE <<>>)
    \o (IF pcImage # null /\ pc.layer = "back" THEN drawPhotocard(pc) ELSE <<>>)
    \o (IF windowBorderManager THEN <<"border">> ELSE <<>>)
    \o (IF pcImage # null /\ pc.layer = "front" THEN drawPhotocard(pc) ELSE <<>>)

\* the size the camera asks for (constraints.video: ideal 1920 x 1080)
VideoSize == [width |-> 1920, height |-> 1080]

\* video.videoWidth and video.videoHeight: 0 until the metadata is loaded
videoSize(pending) ==
    IF pending = "loadedmetadata" THEN [width |-> 0, height |-> 0] ELSE VideoSize

\* the cover sizing of drawBackground() and drawCameraFeed(): baseWidth and
\* baseHeight for a medium of natural size media.width x media.height
coverContain(width, height, media) ==
    LET mediaRatio == Div(media.width * Unit, media.height * Unit)
        canvasRatio == Div(width * Unit, height * Unit)
    IN IF mediaRatio < canvasRatio
       THEN [width |-> Mul(height * Unit, mediaRatio), height |-> height * Unit]
       ELSE [width |-> width * Unit, height |-> Div(width * Unit, mediaRatio)]

coverSize(width, height, media) ==
    LET mediaRatio == Div(media.width * Unit, media.height * Unit)
        canvasRatio == Div(width * Unit, height * Unit)
    IN IF mediaRatio # NaN /\ mediaRatio > canvasRatio
       THEN [width |-> Mul(height * Unit, mediaRatio), height |-> height * Unit]
       ELSE [width |-> width * Unit, height |-> Div(width * Unit, mediaRatio)]

\* what drawBackground() / drawCameraFeed() hand to translate() and drawImage()
drawBase(layer, media, bg) ==
    LET base == coverSize(rect.width, rect.height, media)
    IN [layer |-> layer, media |-> media,
        centerX |-> (rect.width * Unit) \div 2 + bg.x,
        centerY |-> (rect.height * Unit) \div 2 + bg.y,
        dx |-> IF IsFinite(base.width) THEN 0 - base.width \div 2 ELSE base.width,
        dy |-> IF IsFinite(base.height) THEN 0 - base.height \div 2 ELSE base.height,
        width |-> base.width, height |-> base.height]

\* the base layer render() draws: the camera feed, else the background
baseLayer(bgImage, bg, cam, pending) ==
    IF cam.active /\ cam.video THEN drawBase("camera", videoSize(pending), bg)
    ELSE IF bgImage # null THEN drawBase("background", bgImage, bg)
    ELSE null

\* render() on the state the handler leaves behind
Render ==
    LET drawn == photocardImage' # null /\ photocard'.layer \in {"front", "back"}
                 /\ photocard'.showToploader
        r == drawToploader(photocardImage'.width, photocardImage'.height,
                           toploaderGradientCache, gradientCount)
    IN /\ rendered' = TRUE
       /\ drawLog' = renderLog(backgroundImage', photocardImage', photocard', camera')
       /\ baseDraw' = baseLayer(backgroundImage', background', camera', cameraPending')
       /\ IF drawn
          THEN /\ toploaderGradientCache' = r.cache
               /\ gradientCount' = r.count
               /\ overlayDraw' = r.draw
          ELSE UNCHANGED <<toploaderGradientCache, gradientCount, overlayDraw>>

NoRender ==
    /\ rendered' = FALSE
    /\ UNCHANGED <<drawLog, baseDraw, toploaderGradientCache, gradientCount, overlayDraw>>

\* ------------------------------------------------------- gesture handlers
\* the viewport offset of the canvas (rect.left, rect.top)
canvasLeft == 0 - 66 * Unit
canvasTop == 0 - 200 * Unit

gifVars == <<photocardGif, backgroundGif>>
ingestVars == <<playback, clock, liveStreams, cameraPumps, captures, settled>>
mediaVars == <<rect, backgroundImage, photocardImage, isPlaceholder, camera, background,
               gifVars>>
asyncVars == <<inertiaFrames, feedbackTimers, placeholderLoads, cameraPending,
               ingestVars>>

\* Math.max(0.1, Math.min(5, s))
clampScale(s) == MathMax(Fraction(1, 10), MathMin(5 * Unit, s))

\* pointers.findIndex(p => p.id === id), 1-based; 0 when there is none
findIndex(pointers, id) ==
    IF \E i \in 1..Len(pointers) : pointers[i].id = id
    THEN CHOOSE i \in 1..Len(pointers) :
            /\ pointers[i].id = id
            /\ \A j \in 1..(i - 1) : pointers[j].id # id
    ELSE 0

\* pointers.filter(p => p.id !== id)
filterOut(pointers, id) == SelectSeq(pointers, LAMBDA p : p.id # id)

\* the snapshot handlePointerDown takes when the second pointer joins
snapshot(g, pointers, pc) ==
    [g EXCEPT !.startDistance = getDistance(pointers[1], pointers[2]),
              !.startAngle = getAngle(pointers[1], pointers[2]),
              !.startScale = pc.scale,
              !.startRotation = pc.rotation]

\* a pointer-down that left a running inertia loop running
keepInertia(anim) == anim

\* handlePointerDown ends by clearing the inertia flag
cancelInertia(anim) == [anim EXCEPT !.active = FALSE]

\* handlePointerDown(e)
HandlePointerDown(e) ==
    LET ignored == photocardImage = null \/ modalActive
        tapped == /\ ~ignored
                  /\ isPlaceholder /\ Len(gesture.pointers) = 0
                  /\ isPointOnPhotocard(e.clientX - canvasLeft, e.clientY - canvasTop,
                                        photocardImage, photocard)
        pointers == Append(gesture.pointers,
                           [id |-> e.pointerId, x |-> e.clientX, y |-> e.clientY])
        g1 == [gesture EXCEPT !.pointers = pointers]
        g2 == IF Len(pointers) = 1
              THEN [g1 EXCEPT !.lastX = e.clientX, !.lastY = e.clientY]
              ELSE IF Len(pointers) = 2 THEN snapshot(g1, pointers, photocard)
              ELSE g1
    IN /\ UNCHANGED <<mediaVars, inertiaFrames, placeholderLoads, cameraPending,
                      ingestVars>>
       /\ IF ignored
          THEN /\ UNCHANGED <<photocard, gesture, animation, modalActive, feedbackTimers,
                              budget>>
               /\ NoRender
          ELSE IF tapped
          THEN /\ budget.tap > 0
               /\ budget' = [budget EXCEPT !.tap = @ - 1]
               /\ photocard' = [photocard EXCEPT !.scale = Mul(@, Fraction(95, 100))]
               /\ feedbackTimers' = Append(feedbackTimers, photocard.scale)
               /\ UNCHANGED <<gesture, animation, modalActive>>
               /\ Render
          ELSE /\ Len(gesture.pointers) < budget.pointers
               /\ Len(pointers) = 2 => budget.pinch > 0
               /\ budget' = IF Len(pointers) = 2 THEN [budget EXCEPT !.pinch = @ - 1]
                                                   ELSE budget
               /\ gesture' = [g2 EXCEPT !.active = TRUE]
               /\ animation' = cancelInertia(animation)
               /\ UNCHANGED <<photocard, modalActive, feedbackTimers>>
               /\ NoRender

\* an incremental pinch: each move scales and rotates what the move before
\* left, not the snapshot
pinchRotateIncremental(pc, g, pointers) ==
    LET p1 == pointers[1]
        p2 == pointers[2]
        scaleChange == Div(getDistance(p1, p2), g.startDistance)
        angleChange == getAngle(p1, p2) - g.startAngle
    IN [pc EXCEPT !.scale = MathMax(Fraction(1, 10), MathMin(5 * Unit, Mul(@, scaleChange))),
                  !.rotation = @ + angleChange]

\* the two-pointer branch of handlePointerMove: pinch to zoom, and rotate
pinchRotate(pc, g, pointers) ==
    LET p1 == pointers[1]
        p2 == pointers[2]
        distance == getDistance(p1, p2)
        scaleChange == Div(distance, g.startDistance)
        angle == getAngle(p1, p2)
        angleChange == angle - g.startAngle
    IN [pc EXCEPT !.scale = clampScale(Mul(g.startScale, scaleChange)),
                  !.rotation = g.startRotation + angleChange]

\* a drag that follows the pointer at half its displacement
dragHalf(pc, dx, dy) == [pc EXCEPT !.x = @ + dx \div 2, !.y = @ + dy \div 2]

\* the single-pointer branch of handlePointerMove: the translate follows
dragTo(pc, dx, dy) == [pc EXCEPT !.x = @ + dx, !.y = @ + dy]

\* handlePointerMove(e)
HandlePointerMove(e) ==
    LET ignored == modalActive \/ ~gesture.active \/ photocardImage = null
        pointerIndex == findIndex(gesture.pointers, e.pointerId)
        pointers == IF pointerIndex # 0
                    THEN [gesture.pointers EXCEPT ![pointerIndex].x = e.clientX,
                                                  ![pointerIndex].y = e.clientY]
                    ELSE gesture.pointers
        dx == e.clientX - gesture.lastX
        dy == e.clientY - gesture.lastY
    IN /\ UNCHANGED <<mediaVars, asyncVars, modalActive>>
       /\ IF ignored
          THEN /\ UNCHANGED <<photocard, gesture, animation, budget>>
               /\ NoRender
          ELSE /\ IF Len(pointers) = 1
                  THEN /\ budget.drag > 0
                       /\ budget' = [budget EXCEPT !.drag = @ - 1]
                       /\ photocard' = dragTo(photocard, dx, dy)
                       /\ gesture' = [gesture EXCEPT !.pointers = pointers,
                                                     !.lastX = e.clientX,
                                                     !.lastY = e.clientY]
                       /\ animation' = [animation EXCEPT !.velocityX = dx,
                                                         !.velocityY = dy]
                  ELSE IF Len(pointers) = 2
                  THEN /\ photocard' = pinchRotate(photocard, gesture, pointers)
                       /\ gesture' = [gesture EXCEPT !.pointers = pointers]
                       /\ UNCHANGED <<animation, budget>>
                  ELSE /\ gesture' = [gesture EXCEPT !.pointers = pointers]
                       /\ UNCHANGED <<photocard, animation, budget>>
               /\ Render

\* an inertia loop that stops as soon as either velocity component is small
animateStopsOnEither(pc, anim) ==
    LET velocityX == Mul(anim.velocityX, Fraction(9, 10))
        velocityY == Mul(anim.velocityY, Fraction(9, 10))
        stop == Abs(velocityX) < Fraction(1, 10) \/ Abs(velocityY) < Fraction(1, 10)
    IN [photocard |-> [pc EXCEPT !.x = @ + anim.velocityX, !.y = @ + anim.velocityY],
        animation |-> [active |-> ~stop, velocityX |-> velocityX, velocityY |-> velocityY],
        again |-> ~stop]

\* one run of the animate closure of startInertiaAnimation (animation.active
\* holds): the transform, the animation state, and whether it renders and
\* schedules itself again
animate(pc, anim) ==
    LET velocityX == Mul(anim.velocityX, Fraction(9, 10))
        velocityY == Mul(anim.velocityY, Fraction(9, 10))
        stop == Abs(velocityX) < Fraction(1, 10) /\ Abs(velocityY) < Fraction(1, 10)
    IN [photocard |-> [pc EXCEPT !.x = @ + anim.velocityX, !.y = @ + anim.velocityY],
        animation |-> [active |-> ~stop, velocityX |-> velocityX, velocityY |-> velocityY],
        again |-> ~stop]

\* a pointer-up that keeps the drag origin it found
releaseStale(g, pointers) ==
    IF Len(pointers) = 0 THEN [g EXCEPT !.pointers = pointers, !.active = FALSE]
    ELSE [g EXCEPT !.pointers = pointers]

\* a pointer-up that leaves the session open
releaseOpen(g, pointers) ==
    IF Len(pointers) = 1
    THEN [g EXCEPT !.pointers = pointers, !.lastX = pointers[1].x,
                   !.lastY = pointers[1].y]
    ELSE [g EXCEPT !.pointers = pointers]

\* this.gesture after handlePointerUp: `pointers` is the filtered list
release(g, pointers) ==
    IF Len(pointers) = 0 THEN [g EXCEPT !.pointers = pointers, !.active = FALSE]
    ELSE IF Len(pointers) = 1
    THEN [g EXCEPT !.pointers = pointers, !.lastX = pointers[1].x,
                   !.lastY = pointers[1].y]
    ELSE [g EXCEPT !.pointers = pointers]

\* handlePointerUp(e), with startInertiaAnimation() and its first animate()
HandlePointerUp(e) ==
    LET pointers == filterOut(gesture.pointers, e.pointerId)
        start == Abs(animation.velocityX) > Unit \/ Abs(animation.velocityY) > Unit
        a == animate(photocard, [animation EXCEPT !.active = TRUE])
    IN /\ UNCHANGED <<mediaVars, budget, modalActive, feedbackTimers, placeholderLoads,
                      cameraPending, ingestVars>>
       /\ gesture' = release(gesture, pointers)
       /\ IF Len(pointers) = 0
          THEN /\ IF start
                  THEN /\ photocard' = a.photocard
                       /\ animation' = a.animation
                       /\ IF a.again
                          THEN /\ inertiaFrames < MaxFrames
                               /\ inertiaFrames' = inertiaFrames + 1
                               /\ Render
                          ELSE /\ UNCHANGED inertiaFrames
                               /\ NoRender
                  ELSE /\ UNCHANGED <<photocard, animation, inertiaFrames>>
                       /\ NoRender
          ELSE /\ UNCHANGED <<photocard, animation, inertiaFrames>>
               /\ NoRender

\* a pending requestAnimationFrame(animate) callback of the inertia loop runs
AnimateFrame ==
    LET a == animate(photocard, animation)
    IN /\ inertiaFrames > 0
       /\ UNCHANGED <<mediaVars, budget, modalActive, feedbackTimers, placeholderLoads,
                      cameraPending, ingestVars, gesture>>
       /\ IF ~animation.active
          THEN /\ inertiaFrames' = inertiaFrames - 1
               /\ UNCHANGED <<photocard, animation>>
               /\ NoRender
          ELSE /\ photocard' = a.photocard
               /\ animation' = a.animation
               /\ IF a.again
                  THEN /\ UNCHANGED inertiaFrames
                       /\ Render
                  ELSE /\ inertiaFrames' = inertiaFrames - 1
                       /\ NoRender

\* handleWheel(e), e.deltaY > 0 or not
HandleWheel(deltaYPositive) ==
    LET delta == IF deltaYPositive THEN Fraction(95, 100) ELSE Fraction(105, 100)
    IN /\ UNCHANGED <<mediaVars, asyncVars, modalActive, gesture, animation>>
       /\ IF photocardImage = null
          THEN /\ UNCHANGED <<photocard, budget>>
               /\ NoRender
          ELSE /\ budget.wheel > 0
               /\ budget' = [budget EXCEPT !.wheel = @ - 1]
               /\ photocard' = [photocard EXCEPT !.scale = clampScale(Mul(@, delta))]
               /\ Render

\* ------------------------------------------------------------ media loads
\* the centring loadPlaceholderPhotocard / loadPhotocard / resetPhotocard share
centreX == (rect.width * Unit) \div 2
centreY == (rect.height * Unit) \div 2

\* a fit that divides by the height of the image
fitScaleByHeight(img) ==
    LET m == IF rect.width < rect.height THEN rect.width ELSE rect.height
    IN Div(m * Unit, Mul(img.height * Unit, Fraction(15, 10)))

\* Math.min(rect.width, rect.height) / (img.width * 1.5)
fitScale(img) ==
    LET m == IF rect.width < rect.height THEN rect.width ELSE rect.height
    IN Div(m * Unit, Mul(img.width * Unit, Fraction(15, 10)))

\* a promise of loadPhotocard, loadBackground or startCamera that resolved
Fulfilled(promise) == [promise |-> promise, state |-> "fulfilled"]

\* a promise that rejected, and the error it rejected with
Rejected(promise, error) == [promise |-> promise, state |-> "rejected", error |-> error]

\* img.onload of loadPlaceholderPhotocard()
PlaceholderLoaded ==
    /\ placeholderLoads > 0
    /\ placeholderLoads' = placeholderLoads - 1
    /\ photocardImage' = PlaceholderImage
    /\ isPlaceholder' = TRUE
    /\ photocard' = [photocard EXCEPT !.x = centreX, !.y = centreY,
                                      !.scale = fitScale(PlaceholderImage)]
    /\ UNCHANGED <<rect, backgroundImage, camera, background, gifVars, gesture, animation,
                   modalActive, inertiaFrames, feedbackTimers, cameraPending, ingestVars,
                   budget>>
    /\ Render

\* img.onload of loadPhotocard(file) for a static image
LoadPhotocard(img) ==
    /\ budget.load > 0
    /\ budget' = [budget EXCEPT !.load = @ - 1]
    /\ photocardImage' = img
    /\ isPlaceholder' = FALSE
    /\ photocardGif' = [photocardGif EXCEPT !.isGif = FALSE]
    /\ photocard' = [photocard EXCEPT !.x = centreX, !.y = centreY,
                                      !.scale = fitScale(img)]
    /\ settled' = Fulfilled("loadPhotocard")
    /\ UNCHANGED <<rect, backgroundImage, camera, background, backgroundGif, gesture,
                   animation, modalActive, inertiaFrames, feedbackTimers,
                   placeholderLoads, cameraPending, playback, clock, liveStreams,
                   cameraPumps, captures>>
    /\ Render

\* the setTimeout callback of the placeholder tap (150 ms): timers fire in
\* the order they were set
FeedbackTimeout ==
    /\ feedbackTimers # <<>>
    /\ feedbackTimers' = Tail(feedbackTimers)
    /\ photocard' = [photocard EXCEPT !.scale = Head(feedbackTimers)]
    /\ UNCHANGED <<mediaVars, gesture, animation, modalActive, inertiaFrames,
                   placeholderLoads, cameraPending, ingestVars, budget>>
    /\ Render

\* a modal dialog opens or closes (.modal.active appears or disappears)
SetModal(open) ==
    /\ budget.media > 0
    /\ budget' = [budget EXCEPT !.media = @ - 1]
    /\ modalActive' = open
    /\ UNCHANGED <<mediaVars, photocard, gesture, animation, asyncVars>>
    /\ NoRender

\* img.onload of loadBackground(file) for a static image
LoadBackground(img) ==
    /\ budget.media > 0
    /\ budget' = [budget EXCEPT !.media = @ - 1]
    /\ backgroundImage' = img
    /\ backgroundGif' = [backgroundGif EXCEPT !.isGif = FALSE]
    /\ settled' = Fulfilled("loadBackground")
    /\ UNCHANGED <<rect, photocardImage, isPlaceholder, camera, background, photocardGif,
                   photocard, gesture, animation, modalActive, inertiaFrames,
                   feedbackTimers, placeholderLoads, cameraPending, playback, clock,
                   liveStreams, cameraPumps, captures>>
    /\ Render

\* ------------------------------------------------------------ GIF ingest
\* one cell of a GIF canvas stands for a block of 5 x 5 pixels
CellPixels == 10 \div 2

\* a decoded frame as decompressFrames(gif, true) returns it: the patch is
\* dims.width x dims.height cells of one colour ("clear" is transparent)
Frame(left, top, width, height, fill, disposalType, delay) ==
    [dims |-> [left |-> left, top |-> top, width |-> width, height |-> height],
     fill |-> fill, disposalType |-> disposalType, delay |-> delay]

\* tempCanvas after clearRect(0, 0, gifWidth, gifHeight), and when created
clearRect(gifWidth, gifHeight) ==
    [c \in (0..gifWidth - 1) \X (0..gifHeight - 1) |-> "clear"]

\* putImageData(imageData, dims.left, dims.top): the patch replaces the
\* cells it covers, transparent cells included
putImageData(buffer, frame) ==
    [c \in DOMAIN buffer |->
        IF /\ c[1] >= frame.dims.left /\ c[1] < frame.dims.left + frame.dims.width
           /\ c[2] >= frame.dims.top /\ c[2] < frame.dims.top + frame.dims.height
        THEN frame.fill ELSE buffer[c]]

\* a variant of the disposal step that never clears the buffer
disposeNever(frames, index, buffer) == buffer

\* the disposal step of parseGif before frame `index` is drawn
dispose(frames, index, buffer) ==
    IF index > 1 /\ frames[index - 1].disposalType = 2
    THEN clearRect(frames[1].dims.width, frames[1].dims.height)
    ELSE buffer

\* frames.forEach of parseGif from frame `index` on: the snapshots of
\* tempCanvas taken after each frame is drawn
RECURSIVE composeFrames(_, _, _)
composeFrames(frames, index, buffer) ==
    IF index > Len(frames) THEN <<>>
    ELSE LET drawn == putImageData(dispose(frames, index, buffer), frames[index])
         IN <<[width |-> frames[1].dims.width * CellPixels,
               height |-> frames[1].dims.height * CellPixels,
               pixels |-> drawn]>>
            \o composeFrames(frames, index + 1, drawn)

\* a variant of the delay conversion that keeps the decoder's number
delayAsDecoded(delay) == IF delay = null THEN 10 ELSE delay.num

\* delays[index] = (frame.delay || 10) * 10
frameDelay(delay) == (IF delay = null \/ delay.num = 0 THEN 10 ELSE delay.num) * 10

\* parseGif(arrayBuffer): the error it rejects with, or frames and delays
parseGif(file) ==
    IF ~file.gifuct
    THEN [ok |-> FALSE, error |-> "GIF parser library not loaded"]
    ELSE IF ~file.valid
    THEN [ok |-> FALSE, error |-> "parseGIF"]
    ELSE IF file.frames = <<>>
    THEN [ok |-> FALSE, error |-> "GIF has no frames"]
    ELSE IF \E i \in DOMAIN file.frames :
               file.frames[i].dims.width = 0 \/ file.frames[i].dims.height = 0
    THEN [ok |-> FALSE, error |-> "createImageData"]
    ELSE IF file.broken # 0
    THEN [ok |-> FALSE, error |-> "Failed to load GIF frame"]
    ELSE [ok |-> TRUE,
          frames |-> composeFrames(file.frames, 1,
                                   clearRect(file.frames[1].dims.width,
                                             file.frames[1].dims.height)),
          delays |-> [i \in DOMAIN file.frames |-> frameDelay(file.frames[i].delay)]]

\* what is left alone while a file is loaded into a layer
loadFrame == <<rect, camera, background, gesture, animation, modalActive,
               inertiaFrames, feedbackTimers, placeholderLoads, cameraPending, clock,
               liveStreams, cameraPumps, captures>>

\* a variant of the GIF store that marks the layer animated before parsing
storeGifEarly(layer, gif) ==
    [isGif |-> TRUE,
     frames |-> IF gif.ok THEN gif.frames ELSE layer.frames,
     delays |-> IF gif.ok THEN gif.delays ELSE layer.delays,
     currentFrame |-> IF gif.ok THEN 0 ELSE layer.currentFrame,
     lastFrameTime |-> IF gif.ok THEN clock ELSE layer.lastFrameTime,
     animationFrame |-> IF gif.ok THEN TRUE ELSE layer.animationFrame]

\* photocardGif / backgroundGif after reader.onload of a GIF file
storeGif(layer, gif) ==
    IF ~gif.ok THEN layer
    ELSE [isGif |-> TRUE, frames |-> gif.frames, delays |-> gif.delays,
          currentFrame |-> 0, lastFrameTime |-> clock, animationFrame |-> TRUE]

\* loadPhotocard(file) to the end of its promise: a readable static image
\* reaches img.onload, a readable GIF is parsed, stored and started; every
\* failure rejects the promise
LoadPhotocardFile(file) ==
    IF file.readable /\ file.type # "image/gif" /\ file.valid
    THEN LoadPhotocard(file.image)
    ELSE LET gif == IF ~file.readable THEN [ok |-> FALSE, error |-> "FileReader"]
                    ELSE IF file.type # "image/gif" THEN [ok |-> FALSE, error |-> "Image"]
                    ELSE parseGif(file)
         IN /\ budget.load > 0
            /\ budget' = [budget EXCEPT !.load = @ - 1]
            /\ photocardGif' = storeGif(photocardGif, gif)
            /\ UNCHANGED <<loadFrame, backgroundImage, backgroundGif>>
            /\ IF ~gif.ok
               THEN /\ settled' = Rejected("loadPhotocard", gif.error)
                    /\ UNCHANGED <<photocardImage, isPlaceholder, photocard, playback>>
                    /\ NoRender
               ELSE /\ settled' = Fulfilled("loadPhotocard")
                    /\ photocardImage' = gif.frames[1]
                    /\ isPlaceholder' = FALSE
                    /\ photocard' = [photocard EXCEPT !.x = centreX, !.y = centreY,
                                                      !.scale = fitScale(gif.frames[1])]
                    /\ playback' = [playback EXCEPT !.photocard = @ + 1]
                    /\ Render

\* loadBackground(file) to the end of its promise
LoadBackgroundFile(file) ==
    IF file.readable /\ file.type # "image/gif" /\ file.valid
    THEN /\ budget.load > 0
         /\ budget' = [budget EXCEPT !.load = @ - 1]
         /\ backgroundImage' = file.image
         /\ backgroundGif' = [backgroundGif EXCEPT !.isGif = FALSE]
         /\ settled' = Fulfilled("loadBackground")
         /\ UNCHANGED <<loadFrame, photocardImage, isPlaceholder, photocardGif, photocard,
                        playback>>
         /\ Render
    ELSE LET gif == IF ~file.readable THEN [ok |-> FALSE, error |-> "FileReader"]
                    ELSE IF file.type # "image/gif" THEN [ok |-> FALSE, error |-> "Image"]
                    ELSE parseGif(file)
         IN /\ budget.load > 0
            /\ budget' = [budget EXCEPT !.load = @ - 1]
            /\ backgroundGif' = storeGif(backgroundGif, gif)
            /\ UNCHANGED <<loadFrame, photocardImage, isPlaceholder, photocardGif,
                           photocard>>
            /\ IF ~gif.ok
               THEN /\ settled' = Rejected("loadBackground", gif.error)
                    /\ UNCHANGED <<backgroundImage, playback>>
                    /\ NoRender
               ELSE /\ settled' = Fulfilled("loadBackground")
                    /\ backgroundImage' = gif.frames[1]
                    /\ playback' = [playback EXCEPT !.background = @ + 1]
                    /\ Render

\* timestamps requestAnimationFrame may pass to a callback, in milliseconds
Times == {0, 50, 100}

\* a variant of the playback step that waits for more than the delay
advanceLate(layer, currentTime) ==
    IF currentTime - layer.lastFrameTime > layer.delays[layer.currentFrame + 1]
    THEN [layer EXCEPT !.currentFrame = (@ + 1) % Len(layer.frames),
                       !.lastFrameTime = currentTime, !.animationFrame = TRUE]
    ELSE [layer EXCEPT !.animationFrame = TRUE]

\* one playback step of a GIF layer at the timestamp currentTime
advance(layer, currentTime) ==
    IF currentTime - layer.lastFrameTime >= layer.delays[layer.currentFrame + 1]
    THEN [layer EXCEPT !.currentFrame = (@ + 1) % Len(layer.frames),
                       !.lastFrameTime = currentTime, !.animationFrame = TRUE]
    ELSE [layer EXCEPT !.animationFrame = TRUE]

\* what is left alone by a playback callback
tickFrame == <<rect, camera, background, photocard, isPlaceholder, gesture, animation,
               modalActive, inertiaFrames, feedbackTimers, placeholderLoads,
               cameraPending, liveStreams, cameraPumps, captures, settled, budget>>

\* the animate callback of startPhotocardGifAnimation()
PhotocardGifTick(currentTime) ==
    /\ playback.photocard > 0
    /\ currentTime >= clock
    /\ clock' = currentTime
    /\ UNCHANGED <<tickFrame, backgroundImage, backgroundGif>>
    /\ IF ~photocardGif.isGif
       THEN /\ playback' = [playback EXCEPT !.photocard = @ - 1]
            /\ UNCHANGED <<photocardGif, photocardImage>>
            /\ NoRender
       ELSE /\ photocardGif' = advance(photocardGif, currentTime)
            /\ UNCHANGED playback
            /\ IF currentTime - photocardGif.lastFrameTime
                     >= photocardGif.delays[photocardGif.currentFrame + 1]
               THEN /\ photocardImage' = photocardGif.frames[photocardGif'.currentFrame + 1]
                    /\ Render
               ELSE /\ UNCHANGED photocardImage
                    /\ NoRender

\* the animate callback of startBackgroundGifAnimation()
BackgroundGifTick(currentTime) ==
    /\ playback.background > 0
    /\ currentTime >= clock
    /\ clock' = currentTime
    /\ UNCHANGED <<tickFrame, photocardImage, photocardGif>>
    /\ IF ~backgroundGif.isGif
       THEN /\ playback' = [playback EXCEPT !.background = @ - 1]
            /\ UNCHANGED <<backgroundGif, backgroundImage>>
            /\ NoRender
       ELSE /\ backgroundGif' = advance(backgroundGif, currentTime)
            /\ UNCHANGED playback
            /\ IF currentTime - backgroundGif.lastFrameTime
                     >= backgroundGif.delays[backgroundGif.currentFrame + 1]
               THEN /\ backgroundImage' = backgroundGif.frames[backgroundGif'.currentFrame + 1]
                    /\ Render
               ELSE /\ UNCHANGED backgroundImage
                    /\ NoRender

\* cancelAnimationFrame(layer.animationFrame): the handle names the callback
\* scheduled last, which is pending as long as a loop of the layer is
cancelFrame(layer, pending) ==
    IF layer.animationFrame /\ pending > 0 THEN pending - 1 ELSE pending

\* stopPhotocardGifAnimation()
StopPhotocardGifAnimation ==
    /\ photocardGif' = [photocardGif EXCEPT !.animationFrame = FALSE]
    /\ playback' = [playback EXCEPT
                       !.photocard = cancelFrame(photocardGif, playback.photocard)]
    /\ UNCHANGED <<tickFrame, clock, backgroundImage, backgroundGif, photocardImage>>
    /\ NoRender

\* stopBackgroundGifAnimation()
StopBackgroundGifAnimation ==
    /\ backgroundGif' = [backgroundGif EXCEPT !.animationFrame = FALSE]
    /\ playback' = [playback EXCEPT
                       !.background = cancelFrame(backgroundGif, playback.background)]
    /\ UNCHANGED <<tickFrame, clock, backgroundImage, photocardGif, photocardImage>>
    /\ NoRender

\* ------------------------------------------------------------------ camera
\* what is left alone while the camera is started, stopped or pumped
cameraFrame == <<rect, photocardImage, isPlaceholder, background, gifVars, photocard,
                 gesture, animation, modalActive, inertiaFrames, feedbackTimers,
                 playback, clock>>

\* startCamera() up to its first await (getUserMedia)
StartCamera ==
    /\ budget.media > 0
    /\ cameraPending = "none"
    /\ budget' = [budget EXCEPT !.media = @ - 1]
    /\ camera' = [camera EXCEPT !.video = TRUE]
    /\ cameraPending' = "getUserMedia"
    /\ UNCHANGED <<cameraFrame, backgroundImage, placeholderLoads, liveStreams,
                   cameraPumps, captures, settled>>
    /\ NoRender

\* getUserMedia resolves: the stream is stored and startCamera() continues to
\* its second await; the assignment to video.srcObject throws a TypeError when
\* stopCamera() cleared camera.video meanwhile.  A stream that camera.stream
\* held before is dropped with its tracks still running.
CameraGranted ==
    /\ cameraPending = "getUserMedia"
    /\ liveStreams' = liveStreams + 1
    /\ IF camera.video
       THEN /\ camera' = [camera EXCEPT !.stream = TRUE, !.active = TRUE]
            /\ cameraPending' = "loadedmetadata"
            /\ UNCHANGED settled
       ELSE /\ camera' = [camera EXCEPT !.stream = TRUE]
            /\ cameraPending' = "none"
            /\ settled' = Rejected("startCamera", "TypeError")
    /\ UNCHANGED <<cameraFrame, backgroundImage, placeholderLoads, cameraPumps, captures,
                   budget>>
    /\ NoRender

\* getUserMedia rejects: the catch block logs the provider's error and
\* rethrows it
CameraDenied ==
    /\ cameraPending = "getUserMedia"
    /\ cameraPending' = "none"
    /\ settled' = Rejected("startCamera", "getUserMedia")
    /\ UNCHANGED <<cameraFrame, backgroundImage, camera, placeholderLoads, liveStreams,
                   cameraPumps, captures, budget>>
    /\ NoRender

\* renderCameraFrame(): render and schedule the next frame, or return
renderCameraFrame(cam) ==
    IF cam.active /\ cam.video
    THEN /\ camera' = [cam EXCEPT !.animationFrame = TRUE]
         /\ cameraPumps' = cameraPumps + 1
         /\ Render
    ELSE /\ camera' = cam
         /\ UNCHANGED cameraPumps
         /\ NoRender

\* the video reports its metadata: startCamera() calls renderCameraFrame()
\* and resolves
CameraReady ==
    /\ cameraPending = "loadedmetadata"
    /\ cameraPending' = "none"
    /\ settled' = Fulfilled("startCamera")
    /\ UNCHANGED <<cameraFrame, backgroundImage, placeholderLoads, liveStreams, captures,
                   budget>>
    /\ renderCameraFrame(camera)

\* the requestAnimationFrame callback of renderCameraFrame()
CameraPump ==
    /\ cameraPumps > 0
    /\ UNCHANGED <<cameraFrame, backgroundImage, placeholderLoads, liveStreams, captures,
                   cameraPending, settled, budget>>
    /\ IF camera.active /\ camera.video
       THEN /\ camera' = [camera EXCEPT !.animationFrame = TRUE]
            /\ UNCHANGED cameraPumps
            /\ Render
       ELSE /\ cameraPumps' = cameraPumps - 1
            /\ UNCHANGED camera
            /\ NoRender

\* what stopCamera() leaves in this.camera
stoppedCamera(cam) ==
    [cam EXCEPT !.stream = FALSE, !.animationFrame = FALSE, !.active = FALSE,
                !.video = FALSE]

\* stopCamera() on the camera `cam`: the tracks of cam.stream are stopped,
\* the frame cam.animationFrame names is cancelled, the canvas is rendered
stopCamera(cam) ==
    /\ camera' = stoppedCamera(cam)
    /\ liveStreams' = IF cam.stream THEN liveStreams - 1 ELSE liveStreams
    /\ cameraPumps' = IF cam.animationFrame /\ cameraPumps > 0 THEN cameraPumps - 1
                      ELSE cameraPumps
    /\ Render

\* stopCamera()
StopCamera ==
    /\ budget.media > 0
    /\ budget' = [budget EXCEPT !.media = @ - 1]
    /\ UNCHANGED <<cameraFrame, backgroundImage, placeholderLoads, cameraPending,
                   captures, settled>>
    /\ stopCamera(camera)

\* flipCamera() up to the first await of its startCamera(): the render of
\* stopCamera() is the last one
FlipCamera ==
    /\ budget.media > 0
    /\ cameraPending = "none"
    /\ budget' = [budget EXCEPT !.media = @ - 1]
    /\ camera' = [stoppedCamera(camera) EXCEPT
                     !.facingMode = IF @ = "user" THEN "environment" ELSE "user",
                     !.video = TRUE]
    /\ liveStreams' = IF camera.stream THEN liveStreams - 1 ELSE liveStreams
    /\ cameraPumps' = IF camera.animationFrame /\ cameraPumps > 0 THEN cameraPumps - 1
                      ELSE cameraPumps
    /\ cameraPending' = "getUserMedia"
    /\ UNCHANGED <<cameraFrame, backgroundImage, placeholderLoads, captures, settled>>
    /\ Render

\* captureFrame(): the frame is drawn to a canvas and handed to an Image; the
\* canvas of a video without metadata is empty and its Image never loads
CaptureFrame ==
    /\ budget.media > 0
    /\ budget' = [budget EXCEPT !.media = @ - 1]
    /\ UNCHANGED <<cameraFrame, backgroundImage, camera, placeholderLoads, liveStreams,
                   cameraPumps, cameraPending, settled>>
    /\ captures' = IF camera.active /\ camera.video /\ videoSize(cameraPending).width > 0
                   THEN captures + 1 ELSE captures
    /\ NoRender

\* img.onload of captureFrame(): the capture becomes the background, the
\* camera is stopped, the placeholder is reloaded unless a card was uploaded
CaptureLoaded ==
    /\ captures > 0
    /\ captures' = captures - 1
    /\ backgroundImage' = VideoSize
    /\ placeholderLoads' = IF photocardImage = null \/ isPlaceholder
                           THEN placeholderLoads + 1 ELSE placeholderLoads
    /\ UNCHANGED <<cameraFrame, cameraPending, settled, budget>>
    /\ stopCamera(camera)

\* handleCameraDiscard(): the background is cleared; a narrow window renders,
\* a wide one restarts the camera (initializeCamera -> startCamera)
HandleCameraDiscard(mobile) ==
    /\ budget.media > 0
    /\ budget' = [budget EXCEPT !.media = @ - 1]
    /\ backgroundImage' = null
    /\ UNCHANGED <<cameraFrame, placeholderLoads, liveStreams, cameraPumps, captures,
                   settled>>
    /\ IF mobile
       THEN /\ UNCHANGED <<camera, cameraPending>>
            /\ Render
       ELSE /\ cameraPending = "none"
            /\ camera' = [camera EXCEPT !.video = TRUE]
            /\ cameraPending' = "getUserMedia"
            /\ NoRender

\* --------------------------------------------------- layer transform store
storeFrame == <<rect, backgroundImage, photocardImage, isPlaceholder, camera, gifVars,
                gesture, animation, modalActive, asyncVars>>

\* what callers pass to updateBackground(property, value): the rotation of
\* the background is kept in degrees; the scale is whatever number the caller
\* parsed, 0.05 among them
BackgroundUpdates ==
    {<<"x", 10 * Unit>>, <<"scale", 2 * Unit>>, <<"scale", Fraction(5, 100)>>,
     <<"rotation", 90>>}

\* what callers pass to updatePhotocard(property, value): the rotation of
\* the photocard is kept in radians (here in units of pi/4); the scale is
\* whatever number the caller parsed, 10 among them
PhotocardUpdates ==
    {<<"y", 10 * Unit>>, <<"scale", 2 * Unit>>, <<"scale", 10 * Unit>>,
     <<"rotation", 2>>}

\* a background mutator with its guard: `if (!this.backgroundImage) return;`
BackgroundEdit(next) ==
    /\ UNCHANGED <<storeFrame, photocard>>
    /\ IF backgroundImage = null
       THEN /\ UNCHANGED <<background, budget>>
            /\ NoRender
       ELSE /\ budget.edit > 0
            /\ budget' = [budget EXCEPT !.edit = @ - 1]
            /\ background' = next
            /\ Render

\* a photocard mutator with its guard: `if (!this.photocardImage) return;`
PhotocardEdit(next) ==
    /\ UNCHANGED <<storeFrame, background>>
    /\ IF photocardImage = null
       THEN /\ UNCHANGED <<photocard, budget>>
            /\ NoRender
       ELSE /\ budget.edit > 0
            /\ budget' = [budget EXCEPT !.edit = @ - 1]
            /\ photocard' = next
            /\ Render

updateBackground(property, value) ==
    BackgroundEdit([background EXCEPT ![property] = value])

flipBackgroundHorizontal == BackgroundEdit([background EXCEPT !.flipH = ~@])

flipBackgroundVertical == BackgroundEdit([background EXCEPT !.flipV = ~@])

resetBackground == BackgroundEdit(InitBackground)

updatePhotocard(property, value) ==
    PhotocardEdit([photocard EXCEPT ![property] = value])

flipPhotocardHorizontal == PhotocardEdit([photocard EXCEPT !.flipH = ~@])

flipPhotocardVertical == PhotocardEdit([photocard EXCEPT !.flipV = ~@])

\* the record resetPhotocard() assigns
resetTransform(pc, image) ==
    [x |-> centreX, y |-> centreY, scale |-> fitScale(image), rotation |-> 0,
     flipH |-> FALSE, flipV |-> FALSE, layer |-> pc.layer,
     showToploader |-> pc.showToploader]

resetPhotocard == PhotocardEdit(resetTransform(photocard, photocardImage))

bringToFront == PhotocardEdit([photocard EXCEPT !.layer = "front"])

sendToBack == PhotocardEdit([photocard EXCEPT !.layer = "back"])

\* toggleToploader(show): the one mutator without a guard
toggleToploader(show) ==
    /\ budget.edit > 0
    /\ budget' = [budget EXCEPT !.edit = @ - 1]
    /\ photocard' = [photocard EXCEPT !.showToploader = show]
    /\ UNCHANGED <<storeFrame, background>>
    /\ Render

\* flipHorizontal() and flipVertical() delegate to the photocard flips
flipHorizontal == flipPhotocardHorizontal

flipVertical == flipPhotocardVertical

\* Math.PI / 2 in units of pi/4
QuarterTurn == 2

rotateLeft == PhotocardEdit([photocard EXCEPT !.rotation = @ - QuarterTurn])

rotateRight == PhotocardEdit([photocard EXCEPT !.rotation = @ + QuarterTurn])

\* ---------------------------------------------------------- specification
Next ==
    \/ PlaceholderLoaded
    \/ \E img \in Images : LoadPhotocard(img)
    \/ \E img \in BackgroundImages : LoadBackground(img)
    \/ \E e \in PointerEvents : HandlePointerDown(e)
    \/ \E e \in PointerEvents : HandlePointerMove(e)
    \/ \E e \in PointerUpEvents : HandlePointerUp(e)
    \/ \E d \in BOOLEAN : HandleWheel(d)
    \/ AnimateFrame
    \/ FeedbackTimeout
    \/ \E open \in BOOLEAN : SetModal(open)
    \/ StartCamera
    \/ CameraGranted
    \/ CameraDenied
    \/ CameraReady
    \/ CameraPump
    \/ StopCamera
    \/ FlipCamera
    \/ CaptureFrame
    \/ CaptureLoaded
    \/ \E u \in BackgroundUpdates : updateBackground(u[1], u[2])
    \/ flipBackgroundHorizontal
    \/ flipBackgroundVertical
    \/ resetBackground
    \/ \E u \in PhotocardUpdates : updatePhotocard(u[1], u[2])
    \/ flipPhotocardHorizontal
    \/ flipPhotocardVertical
    \/ resetPhotocard
    \/ bringToFront
    \/ sendToBack
    \/ \E show \in BOOLEAN : toggleToploader(show)
    \/ flipHorizontal
    \/ flipVertical
    \/ rotateLeft
    \/ rotateRight

Spec == Init /\ [][Next]_vars

\* ------------------------------------------------------- scale invariant
\* a defined number inside [0.1, 5]
InRange(scale) == IsFinite(scale) /\ scale >= Fraction(1, 10) /\ scale <= 5 * Unit

\* one pointer-down, pointer-move, pointer-up or wheel event is handled
PointerOrWheel ==
    \/ \E e \in PointerEvents : HandlePointerDown(e) \/ HandlePointerMove(e)
    \/ \E e \in PointerUpEvents : HandlePointerUp(e)
    \/ \E d \in BOOLEAN : HandleWheel(d)

\* C1: a pointer or wheel event that finds the foreground scale a defined
\* number inside [0.1, 5] leaves it a defined number inside [0.1, 5], wherever
\* the two pointers are, a second pointer on top of the first included.
C1_ScaleStaysInRange ==
    [][(InRange(photocard.scale) /\ PointerOrWheel) => InRange(photocard'.scale)]_vars

\* ----------------------------------------------------------- pinch, rotate
\* handlePointerDown(e) pushes the second pointer of a session
SecondPointerJoins(e) ==
    /\ Len(gesture.pointers) = 1
    /\ Len(gesture'.pointers) = 2
    /\ HandlePointerDown(e)

\* handlePointerMove(e) takes its two-pointer branch
TwoPointerMove(e) ==
    /\ ~modalActive /\ gesture.active /\ photocardImage # null
    /\ Len(gesture.pointers) = 2
    /\ rendered' /\ budget' = budget
    /\ HandlePointerMove(e)

\* clamp(s0 * d1 / d0, 0.1, 5), the product formed before the quotient
DirectScale(s0, d0, d1) ==
    LET v == (s0 * d1) \div d0
    IN IF v < Fraction(1, 10) THEN Fraction(1, 10)
       ELSE IF v > 5 * Unit THEN 5 * Unit ELSE v

\* the fixed-point quotient d1 / d0 is truncated before it is multiplied
ScaleTolerance == Fraction(6, 1000)

\* C2: the second pointer's pointer-down stores the distance and angle of the
\* two pointers and the foreground scale and rotation; a two-pointer move
\* leaves that snapshot alone and, when the stored distance d0 is positive,
\* sets scale = clamp(s0 * d1 / d0, 0.1, 5) and rotation = r0 + (a1 - a0) from
\* the snapshot and the pointers' distance d1 and angle a1 after the move,
\* whatever moves came before.
C2_PinchIsDirectMapping ==
    [][\A e \in PointerEvents :
          /\ SecondPointerJoins(e) =>
                /\ gesture'.startDistance =
                      getDistance(gesture'.pointers[1], gesture'.pointers[2])
                /\ gesture'.startAngle =
                      getAngle(gesture'.pointers[1], gesture'.pointers[2])
                /\ gesture'.startScale = photocard.scale
                /\ gesture'.startRotation = photocard.rotation
          /\ TwoPointerMove(e) =>
                LET d1 == getDistance(gesture'.pointers[1], gesture'.pointers[2])
                    a1 == getAngle(gesture'.pointers[1], gesture'.pointers[2])
                IN /\ gesture'.startDistance = gesture.startDistance
                   /\ gesture'.startAngle = gesture.startAngle
                   /\ gesture'.startScale = gesture.startScale
                   /\ gesture'.startRotation = gesture.startRotation
                   /\ (gesture.startDistance > 0 /\ IsFinite(gesture.startScale)) =>
                         /\ IsFinite(photocard'.scale)
                         /\ Abs(photocard'.scale
                                - DirectScale(gesture.startScale,
                                              gesture.startDistance, d1))
                               <= ScaleTolerance
                         /\ photocard'.rotation =
                               gesture.startRotation + (a1 - gesture.startAngle)]_vars

\* a pinch in progress has moved the foreground away from its snapshot
C2_Witness ==
    /\ Len(gesture.pointers) = 2
    /\ gesture.startDistance > 0
    /\ getDistance(gesture.pointers[1], gesture.pointers[2])
          \notin {0, gesture.startDistance}
    /\ getAngle(gesture.pointers[1], gesture.pointers[2]) # gesture.startAngle
    /\ IsFinite(photocard.scale)
    /\ photocard.scale # gesture.startScale
    /\ photocard.rotation # gesture.startRotation

\* --------------------------------------------------- gesture and inertia
\* C4: a gesture session and inertia are never active together: the
\* pointer-down that starts a session leaves the inertia flag cleared, and an
\* animation-frame callback of the inertia loop that runs while a pointer is
\* in the session leaves the foreground transform alone.
C4_SessionExcludesInertia ==
    /\ [](~(gesture.active /\ animation.active))
    /\ [](gesture.pointers # <<>> => ~animation.active)
    /\ [][(\E e \in PointerEvents :
              HandlePointerDown(e) /\ gesture'.pointers # gesture.pointers)
          => ~animation'.active]_vars
    /\ [][(AnimateFrame /\ gesture.pointers # <<>>) => photocard' = photocard]_vars

\* a pointer went down while the inertia loop still had a callback pending
C4_Witness ==
    /\ gesture.active
    /\ gesture.pointers # <<>>
    /\ inertiaFrames > 0
    /\ ~animation.active
    /\ Abs(animation.velocityX) > Unit \/ Abs(animation.velocityY) > Unit

\* ------------------------------------------------------- inertia, alone
\* the velocity the last drag move of a session left behind: below 10000
\* pixels per frame in magnitude
Velocities == {0, Unit \div 2, 0 - 2 * Unit, 9999 * Unit, 0 - 9999 * Unit}

\* the manager once the foreground `image` is loaded and rendered with
\* transform `pc`, nothing else having happened
Loaded(image, placeholder, pc) ==
    LET r == drawToploader(image.width, image.height, InitGradientCache, 0)
    IN /\ rect \in CanvasSizes
       /\ backgroundImage = null
       /\ photocardImage = image
       /\ isPlaceholder = placeholder
       /\ camera = InitCamera
       /\ background = InitBackground
       /\ photocard = pc
       /\ toploaderGradientCache = r.cache
       /\ modalActive = FALSE
       /\ inertiaFrames = 0
       /\ feedbackTimers = <<>>
       /\ placeholderLoads = 0
       /\ drawLog = renderLog(null, image, pc, InitCamera)
       /\ baseDraw = null
       /\ overlayDraw = r.draw
       /\ gradientCount = r.count
       /\ rendered = TRUE
       /\ cameraPending = "none"
       /\ InitIngest

\* the placeholder is loaded and one pointer is down after a drag
InitInertia ==
    /\ rect \in CanvasSizes
    /\ Loaded(PlaceholderImage, TRUE,
              [InitPhotocard EXCEPT !.x = centreX, !.y = centreY,
                                    !.scale = fitScale(PlaceholderImage)])
    /\ gesture = [InitGesture EXCEPT !.active = TRUE,
                                     !.pointers = <<[id |-> 1, x |-> 0, y |-> 0]>>]
    /\ \E vx \in Velocities, vy \in Velocities :
          animation = [active |-> FALSE, velocityX |-> vx, velocityY |-> vy]
    /\ budget = Budget(0, 0, 0, 0, 0, 0, 0)

\* the pointer is released and no further input arrives
NextInertia ==
    \/ \E e \in PointerUpEvents : gesture.pointers # <<>> /\ HandlePointerUp(e)
    \/ AnimateFrame

\* the browser runs every animation-frame callback that is pending
SpecInertia == InitInertia /\ [][NextInertia]_vars /\ WF_vars(AnimateFrame)

\* both velocity components are below 0.1 in magnitude
AtRest ==
    /\ Abs(animation.velocityX) < Fraction(1, 10)
    /\ Abs(animation.velocityY) < Fraction(1, 10)

\* C3: once the inertia flag is set with a velocity below 10000 per frame and
\* no input follows, the animation-frame callbacks bring both velocity
\* components below 0.1 after finitely many runs; the flag is then cleared
\* and no callback is left pending.
C3_InertiaTerminates ==
    animation.active ~> (~animation.active /\ inertiaFrames = 0 /\ AtRest)

\* the loop has run from the largest velocity down to rest
C3_Witness ==
    /\ gesture.pointers = <<>>
    /\ ~animation.active
    /\ inertiaFrames = 0
    /\ AtRest
    /\ animation.velocityX # 0
    /\ photocard.x > centreX + 9999 * Unit

\* ------------------------------------------------------- hit test, alone
\* coordinates around the edges of the placeholder at scale 1 and scale 2
HitCoords == {0 - 600, 0 - 301, 0, 300, 301, 450, 451, 600, 601, 900, 901}

\* points of the canvas, fixed-point
HitPoints == {<<x * Unit, y * Unit>> : x \in HitCoords, y \in HitCoords}

HitEvents == {[pointerId |-> 1, clientX |-> p[1] + canvasLeft, clientY |-> p[2] + canvasTop] :
                 p \in HitPoints}

\* foreground transforms: rotation 0, 90 and 180 degrees, scale 1 and 2
HitRotations == {0, 2, 4}

HitScales == {Unit, 2 * Unit}

HitTransforms ==
    [x : {0, Unit}, y : {0}, scale : HitScales, rotation : HitRotations,
     flipH : BOOLEAN, flipV : BOOLEAN, layer : {"front"}, showToploader : {TRUE}]

\* the placeholder under one of the transforms, or no foreground at all
InitHit ==
    /\ rect \in CanvasSizes
    /\ \/ \E pc \in HitTransforms : Loaded(PlaceholderImage, TRUE, pc)
       \/ /\ backgroundImage = null
          /\ photocardImage = null
          /\ isPlaceholder = FALSE
          /\ camera = InitCamera
          /\ background = InitBackground
          /\ photocard = InitPhotocard
          /\ toploaderGradientCache = InitGradientCache
          /\ modalActive = FALSE
          /\ inertiaFrames = 0
          /\ feedbackTimers = <<>>
          /\ placeholderLoads = 0
          /\ drawLog = <<"border">>
          /\ baseDraw = null
          /\ overlayDraw = null
          /\ gradientCount = 0
          /\ rendered = TRUE
          /\ cameraPending = "none"
          /\ InitIngest
    /\ gesture = InitGesture
    /\ animation = InitAnimation
    /\ budget = Budget(0, 0, 0, 0, MaxTap, 0, 0)

\* a pointer goes down somewhere: handlePointerDown asks isPointOnPhotocard
NextHit ==
    \/ \E e \in HitEvents : HandlePointerDown(e)
    \/ FeedbackTimeout

SpecHit == InitHit /\ [][NextHit]_vars

\* the point p, taken relative to the translate and turned back by the
\* rotation, lies within width * scale / 2 and height * scale / 2 of the origin
InsideCard(p, image, pc) ==
    LET dx == p[1] - pc.x
        dy == p[2] - pc.y
        localX == CASE pc.rotation = 0 -> dx
                    [] pc.rotation = 2 -> dy
                    [] pc.rotation = 4 -> 0 - dx
        localY == CASE pc.rotation = 0 -> dy
                    [] pc.rotation = 2 -> 0 - dx
                    [] pc.rotation = 4 -> 0 - dy
    IN /\ 2 * Abs(localX) <= image.width * pc.scale
       /\ 2 * Abs(localY) <= image.height * pc.scale

\* C5: isPointOnPhotocard(p) holds exactly when p, after subtracting the
\* translate, rotating by minus the rotation and dividing by the scale, has
\* |localX| <= width / 2 and |localY| <= height / 2, whatever the flips are
\* (InsideCard reads neither flag); without foreground media it is false
\* (rotation 0, 90, 180 degrees, scale 1 and 2, the points of HitPoints).
C5_HitTest ==
    \A p \in HitPoints :
       /\ photocardImage = null =>
             ~isPointOnPhotocard(p[1], p[2], photocardImage, photocard)
       /\ (/\ photocardImage # null
           /\ photocard.rotation \in HitRotations
           /\ photocard.scale \in HitScales) =>
             isPointOnPhotocard(p[1], p[2], photocardImage, photocard)
                = InsideCard(p, photocardImage, photocard)

\* a pointer-down was taken for a tap on the placeholder turned by 90 degrees
\* and flipped
C5_Witness ==
    /\ photocardImage # null
    /\ photocard.rotation = 2
    /\ photocard.flipH
    /\ feedbackTimers # <<>>
    /\ Head(feedbackTimers) = 2 * Unit

\* ------------------------------------------------------------ draw order
\* position of a draw call in the log of a render, 0 when it was not made
IndexOf(log, call) ==
    IF \E i \in 1..Len(log) : log[i] = call
    THEN CHOOSE i \in 1..Len(log) : log[i] = call
    ELSE 0

\* the base layer calls of a render
BaseCalls(log) == {i \in 1..Len(log) : log[i] \in {"camera", "background"}}

\* C6: in the render a handler ends with, a base layer that is drawn is drawn
\* first; the border comes after the foreground when the layer order is back
\* and before it when the layer order is front; the foreground never comes
\* before the base layer.
C6_DrawOrder ==
    rendered =>
       LET border == IndexOf(drawLog, "border")
           foreground == IndexOf(drawLog, "photocard")
       IN /\ \A i \in BaseCalls(drawLog) : i = 1
          /\ foreground # 0 =>
                /\ border # 0
                /\ photocard.layer = "back" => foreground < border
                /\ photocard.layer = "front" => border < foreground
                /\ \A i \in BaseCalls(drawLog) : i < foreground

\* a render over a background with the foreground sent to the back
C6_Witness ==
    /\ rendered
    /\ photocard.layer = "back"
    /\ drawLog = <<"background", "photocard", "toploader", "border">>

\* C7: the render a handler ends with draws one base layer at most: the camera
\* feed when the camera is active with a video element, else the background
\* image when one is loaded, else none; never both.
C7_OneBaseLayer ==
    rendered =>
       /\ Cardinality(BaseCalls(drawLog)) <= 1
       /\ IF camera.active /\ camera.video
          THEN IndexOf(drawLog, "camera") # 0 /\ IndexOf(drawLog, "background") = 0
          ELSE IF backgroundImage # null
          THEN IndexOf(drawLog, "background") # 0 /\ IndexOf(drawLog, "camera") = 0
          ELSE BaseCalls(drawLog) = {}

\* the camera renders its first frame while a background image is loaded
C7_Witness ==
    /\ rendered
    /\ camera.active /\ camera.video
    /\ backgroundImage # null
    /\ drawLog[1] = "camera"

\* ------------------------------------------------- layer transform store
\* a call of one of the mutators of the foreground transform
PhotocardMutator ==
    \/ \E u \in PhotocardUpdates : updatePhotocard(u[1], u[2])
    \/ flipPhotocardHorizontal \/ flipPhotocardVertical
    \/ flipHorizontal \/ flipVertical
    \/ resetPhotocard
    \/ bringToFront \/ sendToBack
    \/ \E show \in BOOLEAN : toggleToploader(show)
    \/ rotateLeft \/ rotateRight

\* a call of one of the mutators of the background transform
BackgroundMutator ==
    \/ \E u \in BackgroundUpdates : updateBackground(u[1], u[2])
    \/ flipBackgroundHorizontal \/ flipBackgroundVertical
    \/ resetBackground

\* C8: a mutator called for a layer without media leaves the whole transform
\* record of that layer as it was: property setters, flips, resets, quarter
\* turns, bringToFront, sendToBack and toggleToploader.
C8_MutatorsNeedMedia ==
    [][/\ (photocardImage = null /\ PhotocardMutator) => photocard' = photocard
       /\ (backgroundImage = null /\ BackgroundMutator) => background' = background]_vars

\* min(W, H) / (1.5 w), the divisor formed as 15 w / 10
FitOf(w) ==
    LET m == IF rect.width < rect.height THEN rect.width ELSE rect.height
    IN (m * Unit * 10) \div (15 * w)

\* C9: resetPhotocard() on foreground media of width w, canvas W x H, sets
\* translate (W/2, H/2), scale min(W, H) / (1.5 w), rotation 0 and both flips
\* false, and keeps layer order and overlay flag; for w = 100 on 400 x 600
\* that is (200, 300) and 400/150.  loadPhotocard() of a static image sets the
\* same translate and scale.
C9_ResetCentresAndFits ==
    [][/\ (photocardImage # null /\ resetPhotocard) =>
             /\ photocard'.x = (rect.width * Unit) \div 2
             /\ photocard'.y = (rect.height * Unit) \div 2
             /\ photocard'.scale = FitOf(photocardImage.width)
             /\ photocard'.rotation = 0
             /\ ~photocard'.flipH /\ ~photocard'.flipV
             /\ photocard'.layer = photocard.layer
             /\ photocard'.showToploader = photocard.showToploader
             /\ (photocardImage.width = 100 /\ rect.width = 400 /\ rect.height = 600) =>
                   /\ photocard'.x = 200 * Unit /\ photocard'.y = 300 * Unit
                   /\ photocard'.scale = (400 * Unit) \div 150
       /\ \A img \in Images : LoadPhotocard(img) =>
             /\ photocard'.x = (rect.width * Unit) \div 2
             /\ photocard'.y = (rect.height * Unit) \div 2
             /\ photocard'.scale = FitOf(img.width)]_vars

\* the 100 x 150 image on the 400 x 600 canvas, reset after a flip
C9_Witness ==
    /\ photocardImage # null /\ photocardImage.width = 100
    /\ rect.width = 400 /\ rect.height = 600
    /\ budget.edit = 0 /\ budget.load = 0
    /\ photocard.x = 200 * Unit /\ photocard.y = 300 * Unit
    /\ photocard.scale = (400 * Unit) \div 150
    /\ photocard.rotation = 0 /\ ~photocard.flipH /\ ~photocard.flipV
    /\ photocard.layer = "back"

\* ---------------------------------------------------------- gradient cache
\* the gradients a cache holds
CachedGradients(cache) == {cache.westGradient, cache.eastGradient, cache.southGradient}

\* C10: an overlay draw whose (width, height) is the cached key fills with the
\* three gradient objects the cache held and constructs none; a draw with
\* another (width, height) constructs three gradients that are new, fills
\* with them and leaves them in the cache under the new key; a cache with a
\* key holds three gradients.
C10_GradientCache ==
    /\ (toploaderGradientCache.cachedWidth # null
        \/ toploaderGradientCache.cachedHeight # null)
          => null \notin CachedGradients(toploaderGradientCache)
    /\ overlayDraw # null =>
          LET before == overlayDraw.before
              used == {overlayDraw.west, overlayDraw.east, overlayDraw.south}
          IN /\ toploaderGradientCache.cachedWidth = Num(overlayDraw.width)
             /\ toploaderGradientCache.cachedHeight = Num(overlayDraw.height)
             /\ toploaderGradientCache.westGradient = overlayDraw.west
             /\ toploaderGradientCache.eastGradient = overlayDraw.east
             /\ toploaderGradientCache.southGradient = overlayDraw.south
             /\ IF /\ before.cachedWidth = Num(overlayDraw.width)
                   /\ before.cachedHeight = Num(overlayDraw.height)
                THEN /\ overlayDraw.constructed = 0
                     /\ overlayDraw.west = before.westGradient
                     /\ overlayDraw.east = before.eastGradient
                     /\ overlayDraw.south = before.southGradient
                ELSE /\ overlayDraw.constructed = 3
                     /\ Cardinality(used) = 3
                     /\ used \cap CachedGradients(before) = {}
                     /\ \A g \in used : g.id > gradientCount - 3

\* a draw reused the gradients a second construction had left in the cache
C10_Witness ==
    /\ overlayDraw # null
    /\ overlayDraw.constructed = 0
    /\ overlayDraw.before.cachedWidth = Num(overlayDraw.width)
    /\ overlayDraw.west.id > 3
    /\ overlayDraw.west = overlayDraw.before.westGradient

\* ------------------------------------------------------------ cover sizing
\* canvases of several aspect ratios, the 400 x 300 one among them
CoverCanvasSizes ==
    {[width |-> 400, height |-> 300], [width |-> 400, height |-> 600],
     [width |-> 300, height |-> 300]}

\* uploaded backgrounds: wider than, narrower than and as wide as the canvases
CoverMedia ==
    {[width |-> 800, height |-> 400], [width |-> 400, height |-> 800],
     [width |-> 800, height |-> 600], [width |-> 100, height |-> 100],
     [width |-> 30, height |-> 40]}

\* the manager after init() on one of the canvases; backgrounds are loaded,
\* moved and replaced by the camera feed
InitCover ==
    /\ rect \in CoverCanvasSizes
    /\ backgroundImage = null
    /\ photocardImage = null
    /\ isPlaceholder = FALSE
    /\ camera = InitCamera
    /\ background = InitBackground
    /\ photocard = InitPhotocard
    /\ toploaderGradientCache = InitGradientCache
    /\ gesture = InitGesture
    /\ animation = InitAnimation
    /\ modalActive = FALSE
    /\ inertiaFrames = 0
    /\ feedbackTimers = <<>>
    /\ placeholderLoads = 1
    /\ drawLog = <<"border">>
    /\ baseDraw = null
    /\ overlayDraw = null
    /\ gradientCount = 0
    /\ rendered = TRUE
    /\ cameraPending = "none"
    /\ InitIngest
    /\ budget = Budget(0, 0, 0, 0, 0, MaxEdit, MaxMedia)

NextCover ==
    \/ PlaceholderLoaded
    \/ \E img \in CoverMedia : LoadBackground(img)
    \/ \E u \in BackgroundUpdates : updateBackground(u[1], u[2])
    \/ StartCamera
    \/ CameraGranted
    \/ CameraReady
    \/ CameraPump
    \/ StopCamera

SpecCover == InitCover /\ [][NextCover]_vars

\* the two aspect ratios agree to the resolution of the arithmetic
SameRatio(w1, h1, w2, h2) == Abs(Div(w1, h1) - Div(w2, h2)) <= 2

\* C11: whenever render() draws a background or a camera frame of positive
\* natural size, the size it is drawn at keeps the aspect ratio of the medium,
\* covers the canvas in both directions, equals the canvas height when the
\* medium is relatively wider than the canvas and the canvas width otherwise,
\* and is centred on the canvas centre plus the background translate; an
\* 800 x 400 medium on a 400 x 300 canvas is drawn at exactly 600 x 300.
C11_CoverFit ==
    (rendered /\ baseDraw # null /\ baseDraw.media.width > 0) =>
        LET W == rect.width * Unit
            H == rect.height * Unit
            mw == baseDraw.media.width
            mh == baseDraw.media.height
        IN /\ SameRatio(baseDraw.width, baseDraw.height, mw * Unit, mh * Unit)
           /\ baseDraw.width >= W
           /\ baseDraw.height >= H
           /\ IF mw * rect.height > rect.width * mh
              THEN baseDraw.height = H
              ELSE baseDraw.width = W
           /\ baseDraw.centerX + baseDraw.dx + baseDraw.width \div 2
                 = W \div 2 + background.x
           /\ baseDraw.centerY + baseDraw.dy + baseDraw.height \div 2
                 = H \div 2 + background.y
           /\ (rect.width = 400 /\ rect.height = 300 /\ mw = 800 /\ mh = 400)
                 => (baseDraw.width = 600 * Unit /\ baseDraw.height = 300 * Unit)

\* the 800 x 400 background is drawn on the 400 x 300 canvas, moved aside
C11_Witness ==
    /\ rendered
    /\ baseDraw # null
    /\ baseDraw.layer = "background"
    /\ rect = [width |-> 400, height |-> 300]
    /\ baseDraw.media = [width |-> 800, height |-> 400]
    /\ baseDraw.width = 600 * Unit
    /\ background.x # 0

\* -------------------------------------------------------------- GIF ingest
\* a file handed to loadPhotocard / loadBackground: whether FileReader reads
\* it, whether it decodes, and what the decoder returns for it
GifFile(frames, readable, gifuct, valid, broken) ==
    [type |-> "image/gif", readable |-> readable, gifuct |-> gifuct, valid |-> valid,
     frames |-> frames, broken |-> broken, image |-> null]

StaticFile(image, readable, valid) ==
    [type |-> "image/png", readable |-> readable, gifuct |-> TRUE, valid |-> valid,
     frames |-> <<>>, broken |-> 0, image |-> image]

\* decoded frames on a canvas of 2 x 2 cells: a full red frame, a blue patch
\* in the corner, a transparent patch that adds nothing; the disposal types
\* and the delays (in centiseconds, null when the frame has none) vary
FirstFrames == {Frame(0, 0, 2, 2, "red", d, null) : d \in {1, 2}}

GifFrames ==
    FirstFrames
    \cup {Frame(0, 0, 1, 1, "blue", d, Num(5)) : d \in {0, 2, 3}}
    \cup {Frame(1, 1, 1, 1, "clear", 1, Num(0))}

\* the decoder's results of up to MaxGifFrames frames
DecodedGifs ==
    UNION {{f \in [1..n -> GifFrames] : f[1] \in FirstFrames} : n \in 1..MaxGifFrames}

\* red 10 x 10, then blue 5 x 5 with "restore to background", then nothing new
ExampleFrames ==
    <<Frame(0, 0, 2, 2, "red", 1, null), Frame(0, 0, 1, 1, "blue", 2, Num(5)),
      Frame(1, 1, 1, 1, "clear", 1, Num(0))>>

\* files that cannot be loaded: unreadable, decoder missing, not a GIF, no
\* frames, an empty patch, a frame that cannot be rasterized, a broken image
FailingFiles ==
    {GifFile(ExampleFrames, FALSE, TRUE, TRUE, 0),
     GifFile(ExampleFrames, TRUE, FALSE, TRUE, 0),
     GifFile(<<>>, TRUE, TRUE, FALSE, 0),
     GifFile(<<>>, TRUE, TRUE, TRUE, 0),
     GifFile(<<Frame(0, 0, 2, 2, "red", 1, null), Frame(0, 0, 0, 0, "clear", 1, null)>>,
             TRUE, TRUE, TRUE, 0),
     GifFile(ExampleFrames, TRUE, TRUE, TRUE, 2),
     StaticFile([width |-> 100, height |-> 150], FALSE, TRUE),
     StaticFile([width |-> 100, height |-> 150], TRUE, FALSE)}

BackgroundFiles ==
    {GifFile(frames, TRUE, TRUE, TRUE, 0) : frames \in DecodedGifs}
    \cup {StaticFile(img, TRUE, TRUE) : img \in BackgroundImages}
    \cup FailingFiles

PhotocardFiles ==
    {GifFile(ExampleFrames, TRUE, TRUE, TRUE, 0),
     GifFile(<<Frame(0, 0, 2, 2, "red", 2, Num(5))>>, TRUE, TRUE, TRUE, 0)}
    \cup {StaticFile(img, TRUE, TRUE) : img \in Images}
    \cup FailingFiles

\* the placeholder is shown and files are uploaded to both layers
InitIngestion ==
    /\ Loaded(PlaceholderImage, TRUE,
              [InitPhotocard EXCEPT !.x = centreX, !.y = centreY,
                                    !.scale = fitScale(PlaceholderImage)])
    /\ gesture = InitGesture
    /\ animation = InitAnimation
    /\ budget = Budget(0, 0, 0, MaxUploads, 0, 0, 0)

NextIngestion ==
    \/ \E file \in PhotocardFiles : LoadPhotocardFile(file)
    \/ \E file \in BackgroundFiles : LoadBackgroundFile(file)

SpecIngestion == InitIngestion /\ [][NextIngestion]_vars

\* the cells frame `frame` draws
Covers(frame, c) ==
    /\ c[1] >= frame.dims.left /\ c[1] < frame.dims.left + frame.dims.width
    /\ c[2] >= frame.dims.top /\ c[2] < frame.dims.top + frame.dims.height

\* images[i] is frame i drawn over a cleared buffer when i is the first frame
\* or follows a frame with disposal type 2, over images[i - 1] otherwise
Composited(frames, images) ==
    /\ Len(images) = Len(frames)
    /\ \A i \in DOMAIN frames : \A c \in DOMAIN images[i].pixels :
          images[i].pixels[c] =
              IF Covers(frames[i], c) THEN frames[i].fill
              ELSE IF i = 1 \/ frames[i - 1].disposalType = 2 THEN "clear"
              ELSE images[i - 1].pixels[c]

\* C12: when a GIF is loaded into a layer, each stored frame after the first
\* is its patch drawn over a fully cleared buffer if the frame before it has
\* disposal type 2, and over the unchanged previous composite for every other
\* disposal type; for the red / blue-with-restore / nothing-new example the
\* third stored frame has no red and no blue cell.
C12_DisposalComposition ==
    [][ /\ \A file \in BackgroundFiles :
              (/\ file.type = "image/gif"
               /\ settled' = Fulfilled("loadBackground")
               /\ LoadBackgroundFile(file))
                 => /\ Composited(file.frames, backgroundGif'.frames)
                    /\ file.frames = ExampleFrames
                          => \A c \in DOMAIN backgroundGif'.frames[3].pixels :
                                backgroundGif'.frames[3].pixels[c] = "clear"
        /\ \A file \in PhotocardFiles :
              (/\ file.type = "image/gif"
               /\ settled' = Fulfilled("loadPhotocard")
               /\ LoadPhotocardFile(file))
                 => Composited(file.frames, photocardGif'.frames) ]_vars

\* the example is loaded as background: red carried into the second frame,
\* nothing left in the third
C12_Witness ==
    /\ backgroundGif.isGif
    /\ Len(backgroundGif.frames) = 3
    /\ backgroundGif.frames[2].pixels[<<0, 0>>] = "blue"
    /\ backgroundGif.frames[2].pixels[<<1, 1>>] = "red"
    /\ \A c \in DOMAIN backgroundGif.frames[3].pixels :
          backgroundGif.frames[3].pixels[c] = "clear"
    /\ backgroundImage = backgroundGif.frames[1]

\* ---------------------------------------------------------------- playback
\* two frames of 50 ms each
TwoFrames ==
    <<Frame(0, 0, 2, 2, "red", 1, Num(5)), Frame(0, 0, 1, 1, "blue", 1, Num(5))>>

PlaybackPhotocardFiles ==
    {GifFile(TwoFrames, TRUE, TRUE, TRUE, 0),
     StaticFile([width |-> 100, height |-> 150], TRUE, TRUE)}

PlaybackBackgroundFiles ==
    {GifFile(TwoFrames, TRUE, TRUE, TRUE, 0), GifFile(ExampleFrames, TRUE, TRUE, TRUE, 0),
     StaticFile([width |-> 800, height |-> 400], TRUE, TRUE)}

\* timestamps of the frames: before, at and after the delays
PlaybackTimes == Times \cup {40}

\* the placeholder is shown; files are uploaded, the animations play, the
\* camera is started, a frame is captured or discarded
InitPlayback ==
    /\ Loaded(PlaceholderImage, TRUE,
              [InitPhotocard EXCEPT !.x = centreX, !.y = centreY,
                                    !.scale = fitScale(PlaceholderImage)])
    /\ gesture = InitGesture
    /\ animation = InitAnimation
    /\ budget \in {Budget(0, 0, 0, MaxUploads, 0, 0, 0), Budget(0, 0, 0, 1, 0, 0, MaxMedia)}

NextPlayback ==
    \/ \E file \in PlaybackPhotocardFiles : LoadPhotocardFile(file)
    \/ \E file \in PlaybackBackgroundFiles : LoadBackgroundFile(file)
    \/ \E currentTime \in PlaybackTimes : PhotocardGifTick(currentTime)
    \/ \E currentTime \in PlaybackTimes : BackgroundGifTick(currentTime)
    \/ StopPhotocardGifAnimation
    \/ StopBackgroundGifAnimation
    \/ PlaceholderLoaded
    \/ StartCamera
    \/ CameraGranted
    \/ CameraReady
    \/ CameraPump
    \/ CaptureFrame
    \/ CaptureLoaded
    \/ \E mobile \in BOOLEAN : HandleCameraDiscard(mobile)

SpecPlayback == InitPlayback /\ [][NextPlayback]_vars

\* the step the claim describes for one layer at the timestamp now
Advanced(layer, next, now) ==
    IF now - layer.lastFrameTime >= layer.delays[layer.currentFrame + 1]
    THEN /\ next.currentFrame = (layer.currentFrame + 1) % Len(layer.frames)
         /\ next.lastFrameTime = now
    ELSE /\ next.currentFrame = layer.currentFrame
         /\ next.lastFrameTime = layer.lastFrameTime

\* C13: on each playback tick of an animated layer at time now, currentFrame
\* becomes (currentFrame + 1) mod frames.length and lastFrameTime becomes now
\* exactly when now - lastFrameTime >= delays[currentFrame], both stay as they
\* are otherwise, the other layer's currentFrame and lastFrameTime are left
\* alone, and currentFrame stays an index of the layer's frames; the delays
\* are as many as the frames.
C13_PlaybackStep ==
    [][ /\ \A now \in PlaybackTimes :
              (backgroundGif.isGif /\ BackgroundGifTick(now))
                 => /\ Advanced(backgroundGif, backgroundGif', now)
                    /\ photocardGif' = photocardGif
        /\ \A now \in PlaybackTimes :
              (photocardGif.isGif /\ PhotocardGifTick(now))
                 => /\ Advanced(photocardGif, photocardGif', now)
                    /\ backgroundGif' = backgroundGif
        /\ \A layer \in {backgroundGif', photocardGif'} :
              layer.frames # <<>>
                 => /\ layer.currentFrame >= 0
                    /\ layer.currentFrame < Len(layer.frames)
                    /\ Len(layer.delays) = Len(layer.frames) ]_vars

\* both layers are animated, the background has wrapped around to its first
\* frame while the foreground is on its second
C13_Witness ==
    /\ backgroundGif.isGif
    /\ photocardGif.isGif
    /\ backgroundGif.currentFrame = 0
    /\ backgroundGif.lastFrameTime = 100
    /\ photocardGif.currentFrame = 1
    /\ photocardGif.lastFrameTime = 50
    /\ clock = 100

\* the delays the claim prescribes for the decoded frames
DelaysInMs(frames, delays) ==
    /\ Len(delays) = Len(frames)
    /\ \A i \in DOMAIN frames :
          /\ delays[i] > 0
          /\ delays[i] = IF frames[i].delay = null \/ frames[i].delay = Num(0)
                         THEN 100 ELSE 10 * frames[i].delay.num

\* C14: when a GIF is loaded into a layer the stored delay of each frame is
\* ten times the decoder's delay (centiseconds to milliseconds) when the frame
\* has one, and 100 ms when it has none (a delay of 0 counts as none); every
\* stored delay is strictly positive and there is one delay per stored frame.
C14_DelayConversion ==
    [][ /\ \A file \in BackgroundFiles :
              (/\ file.type = "image/gif"
               /\ settled' = Fulfilled("loadBackground")
               /\ LoadBackgroundFile(file))
                 => /\ DelaysInMs(file.frames, backgroundGif'.delays)
                    /\ Len(backgroundGif'.delays) = Len(backgroundGif'.frames)
        /\ \A file \in PhotocardFiles :
              (/\ file.type = "image/gif"
               /\ settled' = Fulfilled("loadPhotocard")
               /\ LoadPhotocardFile(file))
                 => /\ DelaysInMs(file.frames, photocardGif'.delays)
                    /\ Len(photocardGif'.delays) = Len(photocardGif'.frames) ]_vars

\* a frame without delay, a frame of 5 centiseconds and a frame of delay 0
\* are stored with 100, 50 and 100 ms
C14_Witness ==
    /\ backgroundGif.isGif
    /\ backgroundGif.delays = <<100, 50, 100>>
    /\ Len(backgroundGif.frames) = 3
    /\ settled = Fulfilled("loadBackground")

\* ------------------------------------------------------ unmatched pointers
\* C15: a pointer-up or pointer-cancel whose id is not in gesture.pointers
\* leaves the foreground transform and the inertia state (flag, velocity,
\* pending frames) as they are; in particular it starts no inertia.
C15_UnmatchedPointerUpIgnored ==
    [][\A e \in PointerUpEvents :
          (findIndex(gesture.pointers, e.pointerId) = 0 /\ HandlePointerUp(e))
             => /\ photocard' = photocard
                /\ animation' = animation
                /\ inertiaFrames' = inertiaFrames]_vars

\* the pointer-down e is a tap on the placeholder: no pointer is active and
\* the point is on the card
PlaceholderTap(e) ==
    /\ photocardImage # null
    /\ ~modalActive
    /\ isPlaceholder
    /\ gesture.pointers = <<>>
    /\ isPointOnPhotocard(e.clientX - canvasLeft, e.clientY - canvasTop,
                          photocardImage, photocard)

\* C16: while the placeholder is shown and no pointer is active, a pointer-down
\* on the placeholder adds no pointer and does not activate the gesture, and
\* the pointer-moves and the pointer-up that follow it (the feedback timer of
\* the tap still pending) leave translate, rotation and the inertia state as
\* they are.
C16_PlaceholderTapIsInert ==
    [][ /\ \A e \in PointerEvents :
              (PlaceholderTap(e) /\ HandlePointerDown(e))
                 => (gesture'.pointers = <<>> /\ gesture'.active = gesture.active)
        /\ \A e \in PointerEvents :
              (/\ isPlaceholder
               /\ gesture.pointers = <<>>
               /\ feedbackTimers # <<>>
               /\ HandlePointerMove(e) \/ HandlePointerUp(e))
                 => /\ photocard'.x = photocard.x
                    /\ photocard'.y = photocard.y
                    /\ photocard'.rotation = photocard.rotation
                    /\ animation' = animation
                    /\ inertiaFrames' = inertiaFrames ]_vars

\* ------------------------------------------------------- camera sessions
\* C17: under every interleaving of startCamera (with its suspensions),
\* stopCamera and flipCamera at most one camera stream is live and at most one
\* frame-pump callback is pending, and no stream is live while camera.active
\* is false.
C17_OneCameraSession ==
    /\ liveStreams <= 1
    /\ cameraPumps <= 1
    /\ ~camera.active => liveStreams = 0

\* C18: when the acquisition of the camera fails, startCamera rejects with the
\* provider's error and leaves no partial session behind: camera.active is
\* false, camera.stream and camera.video are null and no frame-pump callback
\* is pending.
C18_FailedStartLeavesNoSession ==
    [][CameraDenied =>
          /\ settled' = Rejected("startCamera", "getUserMedia")
          /\ ~camera'.active
          /\ ~camera'.stream
          /\ ~camera'.video
          /\ cameraPumps' = 0]_vars

\* ------------------------------------------------------------ failed loads
\* C19: when loading a static or animated file into a layer fails (the file
\* cannot be read, the image or the GIF cannot be decoded, the decoder is
\* missing, the GIF has no frames, a frame cannot be rasterized) the promise
\* rejects and the layer's media, placeholder flag, transform and animation
\* state are exactly as before.
C19_FailedLoadChangesNothing ==
    [][ /\ \A file \in FailingFiles :
              LoadPhotocardFile(file)
                 => /\ settled'.promise = "loadPhotocard"
                    /\ settled'.state = "rejected"
                    /\ photocardImage' = photocardImage
                    /\ isPlaceholder' = isPlaceholder
                    /\ photocard' = photocard
                    /\ photocardGif' = photocardGif
                    /\ playback' = playback
        /\ \A file \in FailingFiles :
              LoadBackgroundFile(file)
                 => /\ settled'.promise = "loadBackground"
                    /\ settled'.state = "rejected"
                    /\ backgroundImage' = backgroundImage
                    /\ background' = background
                    /\ backgroundGif' = backgroundGif
                    /\ playback' = playback ]_vars

\* a GIF is playing in the foreground and the latest upload to that layer was
\* rejected because a frame could not be rasterized
C19_Witness ==
    /\ settled = Rejected("loadPhotocard", "Failed to load GIF frame")
    /\ photocardGif.isGif
    /\ photocardImage = photocardGif.frames[1]
    /\ ~isPlaceholder
    /\ playback.photocard = 1

\* --------------------------------------------------- capture and playback
\* C20: once the background is a camera capture, or has been cleared by a
\* discard, no animation-frame callback of a background GIF loaded earlier
\* writes one of its frames back: a playback callback leaves such a
\* background as it is.
C20_CaptureOutlivesPlayback ==
    [][\A now \in PlaybackTimes :
          ((backgroundImage = VideoSize \/ backgroundImage = null)
              /\ BackgroundGifTick(now))
             => backgroundImage' = backgroundImage]_vars

\* ------------------------------------------------------------ slider scale
\* C21: a call updatePhotocard('scale', v) or updateBackground('scale', v) on
\* a layer with media leaves that layer's scale a number inside [0.1, 5],
\* whatever the value v is.
C21_SliderScaleInRange ==
    [][ /\ \A u \in PhotocardUpdates :
              (u[1] = "scale" /\ photocardImage # null /\ updatePhotocard(u[1], u[2]))
                 => InRange(photocard'.scale)
        /\ \A u \in BackgroundUpdates :
              (u[1] = "scale" /\ backgroundImage # null /\ updateBackground(u[1], u[2]))
                 => InRange(background'.scale) ]_vars

\* ------------------------------------------------------- stopped playback
\* C22: once stopPhotocardGifAnimation (stopBackgroundGifAnimation) has been
\* called on an animated layer, and until the layer is loaded again, no
\* animation-frame callback changes the layer's currentFrame or the image it
\* shows, however many loads came before the stop.
C22_StopHaltsPlayback ==
    [][ /\ \A now \in PlaybackTimes :
              (/\ photocardGif.isGif /\ ~photocardGif.animationFrame
               /\ PhotocardGifTick(now))
                 => /\ photocardGif'.currentFrame = photocardGif.currentFrame
                    /\ photocardImage' = photocardImage
        /\ \A now \in PlaybackTimes :
              (/\ backgroundGif.isGif /\ ~backgroundGif.animationFrame
               /\ BackgroundGifTick(now))
                 => /\ backgroundGif'.currentFrame = backgroundGif.currentFrame
                    /\ backgroundImage' = backgroundImage ]_vars

\* ----------------------------------------------------- render after change
\* C23: every handler or callback that changes a field of the foreground or
\* the background transform ends in a call of render(), so that the latest
\* render is never older than the latest change; the inertia ticks are among
\* them, the last one too.
C23_RenderFollowsChange ==
    [][(photocard' # photocard \/ background' # background) => rendered']_vars

\* -------------------------------------------------------------- multi-touch
\* positions one pixel apart: a finger that moves between them is too slow
\* to start inertia when it lifts (|velocity| <= 1)
TouchPoints == {<<0, 0>>, <<Unit, 0>>, <<0, Unit>>}

\* pointer events of up to MaxTouches fingers
TouchEvents ==
    {[pointerId |-> id, clientX |-> p[1], clientY |-> p[2]] :
        id \in 1..MaxTouches, p \in TouchPoints}

TouchUpEvents == {e \in TouchEvents : e.clientX = 0 /\ e.clientY = 0}

\* what the fingers do in one behaviour: up to MaxTouches fingers that pinch,
\* two fingers that pinch and drag on, or one finger that drags in strokes
TouchScenarios ==
    {[Budget(MaxPinch, 0, 0, 0, 0, 0, 0) EXCEPT !.pointers = MaxTouches],
     Budget(MaxPinch, MaxDrag, 0, 0, 0, 0, 0),
     [Budget(0, MaxStrokes, 0, 0, 0, 0, 0) EXCEPT !.pointers = 1]}

\* an uploaded card is shown, centred and fitted; no pointer is down
InitTouch ==
    /\ \E img \in {[width |-> 100, height |-> 150]} :
          Loaded(img, FALSE, [InitPhotocard EXCEPT !.x = centreX, !.y = centreY,
                                                   !.scale = fitScale(img)])
    /\ gesture = InitGesture
    /\ animation = InitAnimation
    /\ budget \in TouchScenarios

\* the fingers of the scenario touch, move and lift
NextTouch ==
    \/ \E e \in TouchEvents : e.pointerId <= budget.pointers /\ HandlePointerDown(e)
    \/ \E e \in TouchEvents : e.pointerId <= budget.pointers /\ HandlePointerMove(e)
    \/ \E e \in TouchUpEvents : e.pointerId <= budget.pointers /\ HandlePointerUp(e)

SpecTouch == InitTouch /\ [][NextTouch]_vars

\* handlePointerMove(e) takes its single-pointer branch for the pointer that
\* is down
SinglePointerMove(e) ==
    /\ ~modalActive /\ gesture.active /\ photocardImage # null
    /\ Len(gesture.pointers) = 1
    /\ gesture.pointers[1].id = e.pointerId
    /\ HandlePointerMove(e)

\* C24: with one active pointer, a move of that pointer to (x, y) adds
\* (x - lastX, y - lastY) to the foreground translate, leaves every other
\* field of the transform as it is and makes (x, y) the new (lastX, lastY), so
\* that translate - (lastX, lastY) is the same after every move of a drag and
\* the drag displaces the card by its end point minus its start point; with
\* two active pointers a move leaves translate and velocity as they are.
C24_DragFollowsPointer ==
    [][\A e \in TouchEvents :
          /\ SinglePointerMove(e) =>
                /\ photocard' = [photocard EXCEPT !.x = @ + (e.clientX - gesture.lastX),
                                                  !.y = @ + (e.clientY - gesture.lastY)]
                /\ gesture'.lastX = e.clientX
                /\ gesture'.lastY = e.clientY
                /\ photocard'.x - gesture'.lastX = photocard.x - gesture.lastX
                /\ photocard'.y - gesture'.lastY = photocard.y - gesture.lastY
          /\ TwoPointerMove(e) =>
                /\ photocard'.x = photocard.x
                /\ photocard'.y = photocard.y
                /\ animation' = animation]_vars

\* one finger went down at (0, 1), moved to (0, 0) and on to (1, 0): the card
\* is one pixel right of and one pixel above the centre
C24_Witness ==
    /\ budget.pointers = 1
    /\ budget.drag = 0
    /\ Len(gesture.pointers) = 1
    /\ gesture.lastX = Unit /\ gesture.lastY = 0
    /\ photocard.x = centreX + Unit
    /\ photocard.y = centreY - Unit

\* handlePointerUp(e) lifts one of two active pointers
LiftOneOfTwo(e) ==
    /\ Len(gesture.pointers) = 2
    /\ Len(gesture'.pointers) = 1
    /\ HandlePointerUp(e)

\* the pointer of a pair that is not the one being lifted
Survivor(pointers, id) == IF pointers[1].id = id THEN pointers[2] ELSE pointers[1]

\* C25: when one of two active pointers is lifted, whichever it is, the other
\* one stays alone in the list and lastX/lastY become its latest recorded
\* position; a move of a single pointer whose recorded position is
\* (lastX, lastY) then changes the translate by the displacement from that
\* recorded position and nothing else.
C25_LiftResumesDrag ==
    [][ /\ \A e \in TouchUpEvents :
              LiftOneOfTwo(e) =>
                 LET p == Survivor(gesture.pointers, e.pointerId)
                 IN /\ gesture'.pointers = <<p>>
                    /\ gesture'.lastX = p.x
                    /\ gesture'.lastY = p.y
                    /\ photocard' = photocard
        /\ \A e \in TouchEvents :
              (/\ gesture.pointers # <<>>
               /\ gesture.lastX = gesture.pointers[1].x
               /\ gesture.lastY = gesture.pointers[1].y
               /\ SinglePointerMove(e)) =>
                 photocard' = [photocard EXCEPT
                                  !.x = @ + (e.clientX - gesture.pointers[1].x),
                                  !.y = @ + (e.clientY - gesture.pointers[1].y)] ]_vars

\* after a pinch that turned the card the first pointer was lifted and the
\* second one dragged the card on
C25_Witness ==
    /\ budget.pinch = 0 /\ budget.drag = 0
    /\ budget.pointers = MaxPointers
    /\ Len(gesture.pointers) = 1
    /\ gesture.pointers[1].id = 2
    /\ gesture.startAngle = 0
    /\ photocard.rotation # 0
    /\ photocard.x # centreX
    /\ gesture.lastX = gesture.pointers[1].x

\* C26: a pointer-move whose id is not in gesture.pointers leaves the
\* foreground transform, lastX/lastY and the velocity as they are, however
\* many pointers are active.
C26_UnmatchedPointerMoveIgnored ==
    [][\A e \in PointerEvents :
          (findIndex(gesture.pointers, e.pointerId) = 0 /\ HandlePointerMove(e))
             => /\ photocard' = photocard
                /\ gesture'.lastX = gesture.lastX
                /\ gesture'.lastY = gesture.lastY
                /\ animation' = animation]_vars

\* the ids of the pointers in the list are pairwise different
DistinctIds(pointers) ==
    \A i, j \in 1..Len(pointers) : pointers[i].id = pointers[j].id => i = j

\* C27: while three pointers with different ids are active (the snapshot of
\* the first two taken at a positive distance), a move of the first or the
\* second pointer sets scale and rotation from the snapshot and the positions
\* of the first two pointers, as the two-pointer branch does, and a move of
\* the third pointer leaves the transform as it is.
C27_ThirdPointerIgnored ==
    [][\A e \in TouchEvents :
          (/\ ~modalActive /\ gesture.active /\ photocardImage # null
           /\ Len(gesture.pointers) = 3
           /\ DistinctIds(gesture.pointers)
           /\ gesture.startDistance > 0
           /\ HandlePointerMove(e))
             => IF findIndex(gesture.pointers, e.pointerId) \in {1, 2}
                THEN photocard' = pinchRotate(photocard, gesture, gesture'.pointers)
                ELSE photocard' = photocard]_vars

\* C28: whenever the number of active pointers becomes 2, from 1 by a
\* pointer-down or from 3 by a pointer-up (different ids, the two pointers
\* apart, the stored reference distance positive), the snapshot in use
\* belongs to that pair: the two-pointer branch applied to the pair where it
\* stands leaves scale and rotation unchanged.
C28_FreshReferenceForPair ==
    [][(/\ Len(gesture.pointers) # 2
        /\ Len(gesture'.pointers) = 2
        /\ DistinctIds(gesture.pointers)
        /\ DistinctIds(gesture'.pointers)
        /\ getDistance(gesture'.pointers[1], gesture'.pointers[2]) > 0
        /\ gesture'.startDistance > 0)
          => LET moved == pinchRotate(photocard', gesture', gesture'.pointers)
             IN /\ moved.scale = photocard'.scale
                /\ moved.rotation = photocard'.rotation]_vars

\* C29: in every reachable state no two entries of gesture.pointers have the
\* same id, whatever pointer-down, pointer-move and pointer-up events arrive,
\* a second pointer-down for an id that is still in the list among them.
C29_PointerIdsUnique == DistinctIds(gesture.pointers)

\* ------------------------------------------------------- session lifetime
\* C30: in every reachable state gesture.active is true exactly when
\* gesture.pointers is not empty.
C30_SessionWhilePointersDown == gesture.active <=> gesture.pointers # <<>>

\* a session of two pointers a distance apart has ended
C30_Witness ==
    /\ ~gesture.active
    /\ gesture.pointers = <<>>
    /\ gesture.startDistance > 0
    /\ budget.pinch = 0

\* ------------------------------------------------------------ stale velocity
\* the velocities a single-pointer move records: differences of two pointer
\* coordinates
DragVelocities == {0, Step * Unit, 0 - Step * Unit}

\* C31: inertia starts only from a velocity a drag move of the same session
\* recorded.  During a session only drag moves write the velocity, so a
\* velocity that is no difference of pointer coordinates at the release of
\* the last pointer was left by the inertia loop of an earlier session, the
\* session contained no single-pointer move, and its release starts no
\* inertia and leaves the translate as it is.
C31_InertiaOnlyFromSessionDrag ==
    [][\A e \in PointerUpEvents :
          (/\ gesture.pointers # <<>>
           /\ gesture'.pointers = <<>>
           /\ \/ animation.velocityX \notin DragVelocities
              \/ animation.velocityY \notin DragVelocities
           /\ HandlePointerUp(e))
             => /\ photocard' = photocard
                /\ ~animation'.active
                /\ inertiaFrames' = inertiaFrames]_vars

\* ------------------------------------------------------ one inertia loop
\* C32: under every interleaving of pointer-downs, pointer-ups and frame
\* callbacks at most one callback of the inertia loop is pending, so that the
\* translate is advanced by the velocity once per animation frame at most.
C32_OneInertiaCallback == inertiaFrames <= 1

\* ------------------------------------------------------ one playback loop
\* C33: for each layer at most one callback of the playback loop is pending,
\* after any sequence of animated and static loads and stops.
C33_OnePlaybackCallback ==
    /\ playback.photocard <= 1
    /\ playback.background <= 1

\* ------------------------------------------------------------ global reset
\* reset(): both playback loops are stopped through their stored handles, the
\* media and the GIF records are dropped, both transforms return to their
\* declared values and the placeholder is requested again; the gesture, the
\* inertia record and its pending callback are not touched, nothing is drawn
Reset ==
    /\ budget.media > 0
    /\ budget' = [budget EXCEPT !.media = @ - 1]
    /\ playback' = [photocard |-> cancelFrame(photocardGif, playback.photocard),
                    background |-> cancelFrame(backgroundGif, playback.background)]
    /\ backgroundImage' = null
    /\ photocardImage' = null
    /\ isPlaceholder' = FALSE
    /\ photocardGif' = InitGif
    /\ backgroundGif' = InitGif
    /\ background' = InitBackground
    /\ photocard' = InitPhotocard
    /\ placeholderLoads' = placeholderLoads + 1
    /\ UNCHANGED <<rect, camera, gesture, animation, modalActive, inertiaFrames,
                   feedbackTimers, cameraPending, clock, liveStreams, cameraPumps,
                   captures, settled>>
    /\ NoRender

\* velocities a drag leaves behind
ResetVelocities == {0, 0 - 2 * Unit}

\* the placeholder is shown and one pointer is down after a drag, or files
\* are uploaded and played; the canvas is reset once, and the pointer is
\* released before the reset or not at all
InitReset ==
    /\ Loaded(PlaceholderImage, TRUE,
              [InitPhotocard EXCEPT !.x = centreX, !.y = centreY,
                                    !.scale = fitScale(PlaceholderImage)])
    /\ gesture = [InitGesture EXCEPT !.active = TRUE,
                                     !.pointers = <<[id |-> 1, x |-> 0, y |-> 0]>>]
    /\ budget \in {Budget(0, 0, 0, 0, 0, 0, 1), Budget(0, 0, 0, MaxUploads, 0, 0, 1)}
    /\ \E vx \in ResetVelocities, vy \in ResetVelocities :
          /\ budget.load > 0 => vx = 0 /\ vy = 0
          /\ animation = [active |-> FALSE, velocityX |-> vx, velocityY |-> vy]

NextReset ==
    \/ \E e \in PointerUpEvents :
          budget.media > 0 /\ gesture.pointers # <<>> /\ HandlePointerUp(e)
    \/ AnimateFrame
    \/ \E file \in PlaybackPhotocardFiles : LoadPhotocardFile(file)
    \/ \E file \in PlaybackBackgroundFiles : LoadBackgroundFile(file)
    \/ \E currentTime \in PlaybackTimes : PhotocardGifTick(currentTime)
    \/ \E currentTime \in PlaybackTimes : BackgroundGifTick(currentTime)
    \/ Reset
    \/ PlaceholderLoaded

SpecReset == InitReset /\ [][NextReset]_vars

\* C34: after the global reset no loop started before it moves the
\* foreground: with no input after the reset, the translate stays at the
\* origin the reset gave it while the layer waits for the placeholder.
C34_ResetStopsLoops ==
    photocardImage = null => photocard.x = 0 /\ photocard.y = 0

\* ------------------------------------------------------- fit of the media
\* canvases in portrait and in landscape
FitCanvasSizes == {[width |-> 400, height |-> 600], [width |-> 600, height |-> 400]}

\* square, wide and tall foreground media
FitImages ==
    {[width |-> 100, height |-> 100], [width |-> 300, height |-> 100],
     [width |-> 100, height |-> 300]}

\* the manager after init() on one of the canvases; a foreground image is
\* uploaded, edited and reset
InitFit ==
    /\ rect \in FitCanvasSizes
    /\ backgroundImage = null
    /\ photocardImage = null
    /\ isPlaceholder = FALSE
    /\ camera = InitCamera
    /\ background = InitBackground
    /\ photocard = InitPhotocard
    /\ toploaderGradientCache = InitGradientCache
    /\ gesture = InitGesture
    /\ animation = InitAnimation
    /\ modalActive = FALSE
    /\ inertiaFrames = 0
    /\ feedbackTimers = <<>>
    /\ placeholderLoads = 1
    /\ drawLog = <<"border">>
    /\ baseDraw = null
    /\ overlayDraw = null
    /\ gradientCount = 0
    /\ rendered = TRUE
    /\ cameraPending = "none"
    /\ InitIngest
    /\ budget = Budget(0, 0, 0, MaxLoad, 0, MaxEdit, 0)

NextFit ==
    \/ PlaceholderLoaded
    \/ \E img \in FitImages : LoadPhotocard(img)
    \/ \E u \in PhotocardUpdates : updatePhotocard(u[1], u[2])
    \/ resetPhotocard
    \/ rotateLeft
    \/ flipPhotocardHorizontal

SpecFit == InitFit /\ [][NextFit]_vars

\* C35: after resetPhotocard() and after a foreground load the media at the
\* new scale fits within the canvas: scale * width <= canvas width and
\* scale * height <= canvas height.
C35_ResetFitsCanvas ==
    [][((photocardImage # null /\ resetPhotocard)
          \/ \E img \in FitImages : LoadPhotocard(img))
         => /\ photocard'.scale * photocardImage'.width <= rect.width * Unit
            /\ photocard'.scale * photocardImage'.height <= rect.height * Unit]_vars

\* ------------------------------------------- the manager of the objekt variant
\* img.onload of loadObjekt(file): the variant has no placeholder and no GIF
\* record; objekt and objektImage are held in photocard and photocardImage
loadObjekt(img) ==
    /\ budget.load > 0
    /\ budget' = [budget EXCEPT !.load = @ - 1]
    /\ photocardImage' = img
    /\ photocard' = [photocard EXCEPT !.x = centreX, !.y = centreY,
                                      !.scale = fitScale(img)]
    /\ settled' = Fulfilled("loadObjekt")
    /\ UNCHANGED <<rect, backgroundImage, isPlaceholder, camera, background, gifVars,
                   gesture, animation, modalActive, inertiaFrames, feedbackTimers,
                   placeholderLoads, cameraPending, playback, clock, liveStreams,
                   cameraPumps, captures>>
    /\ Render

\* the record resetObjekt() assigns: it has no showToploader property, so
\* drawObjekt reads undefined where it tests the flag and draws no overlay;
\* the missing property is held as FALSE
resetObjektTransform(pc, image) ==
    [x |-> centreX, y |-> centreY, scale |-> fitScale(image), rotation |-> 0,
     flipH |-> FALSE, flipV |-> FALSE, layer |-> pc.layer, showToploader |-> FALSE]

resetObjekt == PhotocardEdit(resetObjektTransform(photocard, photocardImage))

\* the variant after init(): no media, no placeholder on its way
InitObjekt ==
    /\ rect \in CanvasSizes
    /\ backgroundImage = null
    /\ photocardImage = null
    /\ isPlaceholder = FALSE
    /\ camera = InitCamera
    /\ background = InitBackground
    /\ photocard = InitPhotocard
    /\ toploaderGradientCache = InitGradientCache
    /\ gesture = InitGesture
    /\ animation = InitAnimation
    /\ modalActive = FALSE
    /\ inertiaFrames = 0
    /\ feedbackTimers = <<>>
    /\ placeholderLoads = 0
    /\ drawLog = <<"border">>
    /\ baseDraw = null
    /\ overlayDraw = null
    /\ gradientCount = 0
    /\ rendered = TRUE
    /\ cameraPending = "none"
    /\ InitIngest
    /\ budget = Budget(0, 0, 0, MaxLoad, 0, MaxEdit, 0)

\* the objekt mutators other than the reset read as those of the photocard
NextObjekt ==
    \/ \E img \in Images : loadObjekt(img)
    \/ \E u \in PhotocardUpdates : updatePhotocard(u[1], u[2])
    \/ flipPhotocardHorizontal
    \/ flipPhotocardVertical
    \/ resetObjekt
    \/ bringToFront
    \/ sendToBack
    \/ \E show \in BOOLEAN : toggleToploader(show)
    \/ rotateLeft
    \/ rotateRight

SpecObjekt == InitObjekt /\ [][NextObjekt]_vars

\* C36: the reset of the foreground layer keeps layer order and overlay
\* flag, in the objekt variant of the manager as in the photocard variant.
C36_ResetKeepsOrderAndOverlay ==
    [][(photocardImage # null /\ resetObjekt)
         => /\ photocard'.layer = photocard.layer
            /\ photocard'.showToploader = photocard.showToploader]_vars

\* ------------------------------------------------------------ camera zoom
\* zoom levels the callers ask for
ZoomLevels == {Unit, 5 * Unit, 10 * Unit}

\* the video track of the stream: whether it has getCapabilities, whether
\* the capabilities list a zoom range, and the range
ZoomTracks ==
    {[getCapabilities |-> FALSE, zoom |-> FALSE, min |-> 0, max |-> 0],
     [getCapabilities |-> TRUE, zoom |-> FALSE, min |-> 0, max |-> 0],
     [getCapabilities |-> TRUE, zoom |-> TRUE, min |-> Unit, max |-> 4 * Unit],
     [getCapabilities |-> TRUE, zoom |-> TRUE, min |-> 2 * Unit, max |-> 8 * Unit]}

\* the zoom setCameraZoom(zoomLevel) stores in camera.currentZoom: the level
\* clamped to the range the camera record holds when the call starts
clampedZoom(cam, zoomLevel) ==
    MathMax(cam.minZoom, MathMin(cam.maxZoom, zoomLevel))

\* this.camera after setCameraZoom(zoomLevel) on the track
zoomedCamera(cam, zoomLevel, track) ==
    IF ~cam.stream \/ ~cam.active THEN cam
    ELSE LET set == [cam EXCEPT !.currentZoom = clampedZoom(cam, zoomLevel)]
         IN IF track.getCapabilities /\ track.zoom /\ track.min # 0 /\ track.max # 0
            THEN [set EXCEPT !.minZoom = track.min, !.maxZoom = track.max]
            ELSE set

\* the zoom applyConstraints is called with: the stored zoom clamped again,
\* to the range of the device
deviceClampedZoom(cam, zoomLevel, track) ==
    LET next == zoomedCamera(cam, zoomLevel, track)
    IN MathMax(next.minZoom, MathMin(next.maxZoom, clampedZoom(cam, zoomLevel)))

\* setCameraZoom(zoomLevel)
setCameraZoom(zoomLevel, track) ==
    /\ camera' = zoomedCamera(camera, zoomLevel, track)
    /\ UNCHANGED <<cameraFrame, backgroundImage, placeholderLoads, liveStreams,
                   cameraPumps, captures, cameraPending, settled, budget>>
    /\ NoRender

\* increaseCameraZoom(step = 0.5)
increaseCameraZoom(track) == setCameraZoom(camera.currentZoom + Unit \div 2, track)

\* decreaseCameraZoom(step = 0.5)
decreaseCameraZoom(track) == setCameraZoom(camera.currentZoom - Unit \div 2, track)

\* the manager after init(); the camera is started and stopped and its zoom
\* is set on the track the provider handed out
InitZoom ==
    /\ Init
    /\ budget.media = MaxMedia

NextZoom ==
    \/ PlaceholderLoaded
    \/ StartCamera
    \/ CameraGranted
    \/ CameraReady
    \/ CameraPump
    \/ StopCamera
    \/ \E z \in ZoomLevels, track \in ZoomTracks : setCameraZoom(z, track)
    \/ \E track \in ZoomTracks : increaseCameraZoom(track)
    \/ \E track \in ZoomTracks : decreaseCameraZoom(track)

SpecZoom == InitZoom /\ [][NextZoom]_vars

\* C37: after a setCameraZoom / increaseCameraZoom / decreaseCameraZoom call
\* on an active camera camera.currentZoom lies within [minZoom, maxZoom] and,
\* when the track has a zoom range, equals the zoom sent to the device.
C37_ZoomWithinDeviceRange ==
    [][\A z \in ZoomLevels, track \in ZoomTracks :
          (camera.stream /\ camera.active /\ setCameraZoom(z, track))
             => /\ camera'.minZoom <= camera'.currentZoom
                /\ camera'.currentZoom <= camera'.maxZoom
                /\ (track.getCapabilities /\ track.zoom)
                      => camera'.currentZoom = deviceClampedZoom(camera, z, track)]_vars

\* ---------------------------------------------------- feedback of the tap
\* the upright placeholder under one of the transforms is tapped, the
\* feedback timers fire, a foreground image is uploaded
InitFeedback ==
    /\ rect \in CanvasSizes
    /\ \E pc \in HitTransforms :
          /\ pc.rotation = 0 /\ ~pc.flipV
          /\ Loaded(PlaceholderImage, TRUE, pc)
    /\ gesture = InitGesture
    /\ animation = InitAnimation
    /\ budget = Budget(0, 0, 0, MaxLoad, MaxTaps, 0, 0)

NextFeedback ==
    \/ \E e \in HitEvents : HandlePointerDown(e)
    \/ FeedbackTimeout
    \/ \E img \in Images : LoadPhotocard(img)

SpecFeedback == InitFeedback /\ [][NextFeedback]_vars

\* C38: once every feedback timer has fired the foreground scale is what it
\* would be without the taps: the scale the placeholder started with, or the
\* fit of the image uploaded since.
C38_TapFeedbackTransient ==
    feedbackTimers = <<>> =>
        IF isPlaceholder THEN photocard.scale \in HitScales
        ELSE photocard.scale = fitScale(photocardImage)

\* ----------------------------------------------------------------- export
\* what the page offers an export: whether gif.js is loaded (typeof GIF) and
\* whether the encoder (canvas.toBlob, gif.render) hands back a blob
ExportEnvs == [gifLibrary : BOOLEAN, blob : BOOLEAN]

\* Math.max(photocardFrameCount, backgroundFrameCount) of exportAsGif()
totalFrames ==
    LET photocardFrameCount == IF photocardGif.isGif THEN Len(photocardGif.frames) ELSE 1
        backgroundFrameCount == IF backgroundGif.isGif THEN Len(backgroundGif.frames) ELSE 1
    IN MathMax(photocardFrameCount, backgroundFrameCount)

\* the image the frame loop of exportAsGif() leaves in a layer: frame
\* (totalFrames - 1) % frameCount of an animated layer, the image it had
\* otherwise
lastExported(layer, image) ==
    IF layer.isGif THEN layer.frames[((totalFrames - 1) % Len(layer.frames)) + 1]
    ELSE image

\* exportImage(asGif) takes the path of exportAsGif()
exportsGif(asGif) == asGif /\ (photocardGif.isGif \/ backgroundGif.isGif)

\* the promise of exportImage(asGif) / exportAsGif() when it settles
exportSettled(asGif, env) ==
    IF exportsGif(asGif) /\ ~env.gifLibrary
    THEN Rejected("exportImage", "GIF encoder library not loaded")
    ELSE IF env.blob THEN Fulfilled("exportImage")
    ELSE Rejected("exportImage", "Failed to export canvas")

\* exportImage(asGif) to the end of its promise: the PNG path copies the
\* canvas; the GIF path assigns every frame to the layers in turn, renders
\* it and hands the canvas to the encoder
exportImage(asGif, env) ==
    /\ settled' = exportSettled(asGif, env)
    /\ UNCHANGED <<rect, isPlaceholder, camera, background, photocard, gifVars, gesture,
                   animation, modalActive, inertiaFrames, feedbackTimers,
                   placeholderLoads, cameraPending, playback, clock, liveStreams,
                   cameraPumps, captures, budget>>
    /\ IF exportsGif(asGif) /\ env.gifLibrary
       THEN /\ photocardImage' = lastExported(photocardGif, photocardImage)
            /\ backgroundImage' = lastExported(backgroundGif, backgroundImage)
            /\ Render
       ELSE /\ UNCHANGED <<photocardImage, backgroundImage>>
            /\ NoRender

\* the placeholder is shown; files are uploaded, the animations play and the
\* composition is exported
InitExport ==
    /\ Loaded(PlaceholderImage, TRUE,
              [InitPhotocard EXCEPT !.x = centreX, !.y = centreY,
                                    !.scale = fitScale(PlaceholderImage)])
    /\ gesture = InitGesture
    /\ animation = InitAnimation
    /\ budget = Budget(0, 0, 0, MaxUploads, 0, 0, 0)

NextExport ==
    \/ \E file \in PlaybackPhotocardFiles : LoadPhotocardFile(file)
    \/ \E file \in PlaybackBackgroundFiles : LoadBackgroundFile(file)
    \/ \E currentTime \in PlaybackTimes : PhotocardGifTick(currentTime)
    \/ \E currentTime \in PlaybackTimes : BackgroundGifTick(currentTime)
    \/ \E asGif \in BOOLEAN, env \in ExportEnvs : exportImage(asGif, env)

SpecExport == InitExport /\ [][NextExport]_vars

\* C39: an export leaves each layer's displayed image and currentFrame as
\* they were, and the displayed image of an animated layer is
\* frames[currentFrame].
C39_ExportKeepsLayers ==
    [][\A asGif \in BOOLEAN, env \in ExportEnvs :
          exportImage(asGif, env)
             => /\ photocardImage' = photocardImage
                /\ backgroundImage' = backgroundImage
                /\ photocardGif'.currentFrame = photocardGif.currentFrame
                /\ backgroundGif'.currentFrame = backgroundGif.currentFrame
                /\ photocardGif'.isGif =>
                      photocardImage' = photocardGif'.frames[photocardGif'.currentFrame + 1]
                /\ backgroundGif'.isGif =>
                      backgroundImage' = backgroundGif'.frames[backgroundGif'.currentFrame + 1]]_vars

\* ------------------------------------------------------------------- save
\* the methods of the CanvasManager object
CanvasMethods ==
    {"init", "resizeCanvas", "attachEventListeners", "handlePointerDown",
     "handlePointerMove", "handlePointerUp", "handleWheel", "startInertiaAnimation",
     "getDistance", "getAngle", "isPointOnPhotocard", "startCamera", "stopCamera",
     "flipCamera", "setCameraZoom", "increaseCameraZoom", "decreaseCameraZoom",
     "getCameraZoom", "getCameraZoomConstraints", "renderCameraFrame", "captureFrame",
     "loadBackground", "loadBackgroundGif", "loadPlaceholderPhotocard", "loadPhotocard",
     "loadPhotocardGif", "parseGif", "startPhotocardGifAnimation",
     "startBackgroundGifAnimation", "stopPhotocardGifAnimation",
     "stopBackgroundGifAnimation", "render", "drawCameraFeed", "drawBackground",
     "drawPhotocard", "drawToploader", "updateBackground", "flipBackgroundHorizontal",
     "flipBackgroundVertical", "resetBackground", "updatePhotocard",
     "flipPhotocardHorizontal", "flipPhotocardVertical", "resetPhotocard",
     "bringToFront", "sendToBack", "toggleToploader", "flipHorizontal", "flipVertical",
     "rotateLeft", "rotateRight", "reset", "exportImage", "exportAsGif",
     "hasGifAnimation", "getDataURL"}

\* hasGifAnimation()
hasGifAnimation == photocardGif.isGif \/ backgroundGif.isGif

\* what the page offers a save: the width class of the window, whether
\* navigator.canShare accepts the file, and how navigator.share ends
SaveEnvs ==
    [mobile : BOOLEAN, canShare : BOOLEAN, share : {"shared", "AbortError", "failed"},
     export : ExportEnvs]

\* the promise of handleSave() when it fulfils, with the notification the
\* call showed last and the way the blob left the page
saved(notification, delivered) ==
    [promise |-> "handleSave", state |-> "fulfilled", notification |-> notification,
     delivered |-> delivered]

\* handleSave() after the export returned a blob
delivery(env, asGif) ==
    IF env.mobile
    THEN IF env.canShare
         THEN IF env.share = "shared" THEN saved("Shared successfully", "share")
              ELSE IF env.share = "AbortError" THEN saved("none", "none")
              ELSE saved("Saved!", "download")
         ELSE saved("Saved!", "download")
    ELSE saved(IF asGif THEN "Animated GIF saved successfully"
               ELSE "Proofshot saved successfully", "download")

\* handleSave() to the end of its promise.  The call of a method the canvas
\* object does not have throws a TypeError inside the try block.
handleSave(env) ==
    LET asGif == hasGifAnimation
        exports == "hasVideo" \in CanvasMethods /\ backgroundImage # null
        encoded == exports /\ exportsGif(asGif) /\ env.export.gifLibrary
    IN /\ UNCHANGED <<rect, isPlaceholder, camera, background, photocard, gifVars,
                      gesture, animation, inertiaFrames, feedbackTimers,
                      placeholderLoads, cameraPending, playback, clock, liveStreams,
                      cameraPumps, captures, budget>>
       /\ settled' =
             IF backgroundImage = null
             THEN saved("Please add a background image before saving", "none")
             ELSE IF ~exports \/ exportSettled(asGif, env.export).state = "rejected"
             THEN saved("Failed to save proofshot", "none")
             ELSE delivery(env, asGif)
       /\ modalActive' =
             IF exports /\ exportSettled(asGif, env.export).state = "fulfilled"
             THEN TRUE ELSE modalActive
       /\ IF encoded
          THEN /\ photocardImage' = lastExported(photocardGif, photocardImage)
               /\ backgroundImage' = lastExported(backgroundGif, backgroundImage)
               /\ Render
          ELSE /\ UNCHANGED <<photocardImage, backgroundImage>>
               /\ NoRender

\* the placeholder is shown; files are uploaded and the composition is saved
InitSave ==
    /\ Loaded(PlaceholderImage, TRUE,
              [InitPhotocard EXCEPT !.x = centreX, !.y = centreY,
                                    !.scale = fitScale(PlaceholderImage)])
    /\ gesture = InitGesture
    /\ animation = InitAnimation
    /\ budget = Budget(0, 0, 0, MaxUploads, 0, 0, 0)

NextSave ==
    \/ \E file \in PlaybackPhotocardFiles : LoadPhotocardFile(file)
    \/ \E file \in PlaybackBackgroundFiles : LoadBackgroundFile(file)
    \/ \E currentTime \in PlaybackTimes : PhotocardGifTick(currentTime)
    \/ \E currentTime \in PlaybackTimes : BackgroundGifTick(currentTime)
    \/ \E env \in SaveEnvs : handleSave(env)

SpecSave == InitSave /\ [][NextSave]_vars

\* C40: handleSave() with a background loaded reaches the export and, when
\* the encoder returns a blob, ends with the blob downloaded or shared and
\* the save-confirmation modal open; it shows the failure notification only
\* when the export fails.
C40_SaveDeliversBlob ==
    [][\A env \in SaveEnvs :
          (/\ backgroundImage # null
           /\ exportSettled(hasGifAnimation, env.export).state = "fulfilled"
           /\ handleSave(env))
             => /\ settled'.delivered \in {"download", "share"}
                /\ modalActive'
                /\ settled'.notification # "Failed to save proofshot"]_vars

====
